---- MODULE Spec2Model ----
(***************************************************************************)
(* pgantics: the typed SQL expression algebra (entities/expression.py,     *)
(* entities/column.py) and the statement builders (query/select.py,        *)
(* query/update.py, query/delete.py, query/insert.py) and the class        *)
(* registry (registry.py).                                                 *)
(*                                                                         *)
(* SQL text is a sequence of tokens.  A token is a tuple: <<s>> for a      *)
(* piece of literal text s, and <<"%s", v>> for a placeholder; v is a      *)
(* ghost annotation naming the value the placeholder was rendered for, so  *)
(* that the pairing of placeholders and parameters can be stated.  The     *)
(* text the program returns is Text(sql), which drops the annotation.      *)
(* Python values are strings ("None" is None); an optional object is the   *)
(* record NoneObj when absent.                                             *)
(***************************************************************************)
EXTENDS Integers, Sequences, FiniteSets, TLC

VARIABLES
    q,       \* the statement builder under construction
    cases,   \* the CaseExpression objects (mutable, shared by reference)
    last,    \* what the most recent call did: its name and its outcome
    pre,     \* ghost: the builder (or registry) as it was before the most recent call
    calls,   \* ghost: which fluent calls the builder has received
    recv,    \* expression algebra: the receiver of the most recent operation
    res,     \* expression algebra: the node that operation returned
    before,  \* ghost: recv.build() as it was before the operation
    nops,    \* number of operations applied so far
    registry,    \* the Register object: its type and its name -> class dict
    registered,  \* ghost: the first class passed to register() under each name
    threads,     \* the threads inside register(): position, class, outcome
    shown        \* format_query: the query's build result and the text returned

vars ==
    <<q, cases, last, pre, calls, recv, res, before, nops, registry, registered,
      threads, shown>>

\* No thread is inside register(); format_query has not been given a query.
NoThreads == <<>>
NoQuery == [sql |-> <<>>, params |-> <<>>, out |-> <<>>, done |-> FALSE]

---------------------------------------------------------------------------
(* Bounds *)

MaxOps == 3        \* operations applied to an expression or fluent calls on a builder
MaxBuilds == 2     \* build() calls on a builder

---------------------------------------------------------------------------
(* Tokens, values, results *)

None == "None"
NoneObj == [kind |-> "none"]

T(s) == <<s>>
Ph(v) == <<"%s", v>>
IsPh(tok) == tok[1] = "%s" /\ Len(tok) = 2

Text(sql) == [i \in DOMAIN sql |-> sql[i][1]]

Ok(sql, params) == [ok |-> TRUE, err |-> "", sql |-> sql, params |-> params]
Raise(err) == [ok |-> FALSE, err |-> err, sql |-> <<>>, params |-> <<>>]

RECURSIVE Join(_, _)
Join(sep, parts) ==
    IF parts = <<>> THEN <<>>
    ELSE IF Len(parts) = 1 THEN parts[1]
    ELSE parts[1] \o sep \o Join(sep, Tail(parts))

RECURSIVE Flatten(_)
Flatten(seqs) == IF seqs = <<>> THEN <<>> ELSE Head(seqs) \o Flatten(Tail(seqs))

---------------------------------------------------------------------------
(* entities/column.py *)

ColumnInfo(table, field) == [kind |-> "col", table |-> table, field |-> field]

ColumnInfo_str(c) == c.table \o "." \o c.field

PyVal(v) == [kind |-> "pyval", value |-> v]
PyList(items) == [kind |-> "pyseq", items |-> items]

ColumnCondition(column, operator, comparator) ==
    [kind |-> "ccond", column |-> column, operator |-> operator, comparator |-> comparator]

ColumnInfo_compare(c, operator, other) == ColumnCondition(c, operator, other)
ColumnInfo_in_(c, item) == ColumnCondition(c, "IN", item)
ColumnInfo_not_in_(c, item) == ColumnCondition(c, "NOT IN", item)
ColumnInfo_is_null(c) == ColumnCondition(c, "IS NULL", PyVal(None))

\* The parameter a Python object becomes when it is passed through as a value.
ParamOf(v) ==
    CASE v.kind = "pyval" -> v.value
      [] v.kind = "col" -> "ColumnInfo(" \o ColumnInfo_str(v) \o ")"
      [] OTHER -> "<" \o v.kind \o ">"

ColumnConditionKinds == {"ccond", "ctree", "cnot"}
ColumnConditionTree(joiner, left, right) ==
    [kind |-> "ctree", joiner |-> joiner, left |-> left, right |-> right]
ColumnNotCondition(condition) == [kind |-> "cnot", condition |-> condition]
ColumnCondition_and(self, other) ==
    IF other.kind \in ColumnConditionKinds THEN ColumnConditionTree("AND", self, other)
    ELSE [kind |-> "failed", err |-> "TypeError"]
ColumnCondition_or(self, other) ==
    IF other.kind \in ColumnConditionKinds THEN ColumnConditionTree("OR", self, other)
    ELSE [kind |-> "failed", err |-> "TypeError"]
ColumnCondition_invert(self) == ColumnNotCondition(self)

ColumnCondition_build(c) ==
    LET col == <<T(ColumnInfo_str(c.column))>> IN
    IF c.operator \in {"IN", "NOT IN"} /\ c.comparator.kind = "pyseq"
    THEN LET items == c.comparator.items IN
         Ok(col \o <<T(c.operator), T("(")>>
                \o Join(<<T(",")>>, [i \in DOMAIN items |-> <<Ph(items[i])>>])
                \o <<T(")")>>,
            items)
    ELSE IF c.operator \in {"IS NULL", "IS NOT NULL"} /\ c.comparator = PyVal(None)
    THEN Ok(col \o <<T(c.operator)>>, <<>>)
    ELSE IF c.comparator.kind = "col"
    THEN Ok(col \o <<T(c.operator), T(ColumnInfo_str(c.comparator))>>, <<>>)
    ELSE Ok(col \o <<T(c.operator), Ph(ParamOf(c.comparator))>>, <<ParamOf(c.comparator)>>)

ColumnConditionTree_build(joiner, L, R) ==
    IF ~L.ok THEN L ELSE IF ~R.ok THEN R
    ELSE Ok(<<T("(")>> \o L.sql \o <<T(")"), T(joiner), T("(")>> \o R.sql \o <<T(")")>>,
            L.params \o R.params)

ColumnNotCondition_build(C) ==
    IF ~C.ok THEN C ELSE Ok(<<T("NOT"), T("(")>> \o C.sql \o <<T(")")>>, C.params)

---------------------------------------------------------------------------
(* entities/expression.py *)

BaseExpressionKinds ==
    {"raw", "lit", "null", "alias", "bin", "un", "fn", "case", "cond", "tree",
     "not", "order"}

\* Subclasses of class Expression (the ones that carry the operator overloads).
ExpressionKinds == {"raw", "lit", "null", "bin", "un", "fn", "case"}

Expression(sql, params) == [kind |-> "raw", sql |-> sql, params |-> params]
LiteralExpression(value) == [kind |-> "lit", value |-> value]
NullExpression == [kind |-> "null"]
Alias(expression, alias) == [kind |-> "alias", expression |-> expression, alias |-> alias]
BinaryExpression(left, operator, right) ==
    [kind |-> "bin", left |-> left, operator |-> operator, right |-> right]
UnaryExpression(operator, operand) ==
    [kind |-> "un", operator |-> operator, operand |-> operand]
FunctionExpression(name, args, distinct, filter_condition, over_clause) ==
    [kind |-> "fn", name |-> name, args |-> args, distinct |-> distinct,
     filter_condition |-> filter_condition, over_clause |-> over_clause]
CaseRef(id) == [kind |-> "case", id |-> id]
Condition(left, operator, right) ==
    [kind |-> "cond", left |-> left, operator |-> operator, right |-> right]
ConditionTree(operator, left, right) ==
    [kind |-> "tree", operator |-> operator, left |-> left, right |-> right]
NotCondition(condition) == [kind |-> "not", condition |-> condition]
OrderExpression(expression, direction) ==
    [kind |-> "order", expression |-> expression, direction |-> direction]

to_expression(value) ==
    IF value.kind \in BaseExpressionKinds THEN value
    ELSE LiteralExpression(ParamOf(value))

Expression_build(e) == Ok(e.sql, e.params)

LiteralExpression_build(value) ==
    IF value = None THEN Ok(<<T("NULL")>>, <<>>)
    ELSE Ok(<<Ph(value)>>, <<value>>)

NullExpression_build == Ok(<<T("NULL")>>, <<>>)

Alias_build(E, alias) ==
    IF ~E.ok THEN E ELSE Ok(E.sql \o <<T("AS"), T(alias)>>, E.params)

\* BinaryExpression.build collecting the right operand's parameters first.
BinaryExpression_build_swapped(L, operator, R) ==
    IF ~L.ok THEN L ELSE IF ~R.ok THEN R
    ELSE Ok(<<T("(")>> \o L.sql \o <<T(operator)>> \o R.sql \o <<T(")")>>,
            R.params \o L.params)

BinaryExpression_build(L, operator, R) ==
    IF ~L.ok THEN L ELSE IF ~R.ok THEN R
    ELSE Ok(<<T("(")>> \o L.sql \o <<T(operator)>> \o R.sql \o <<T(")")>>,
            L.params \o R.params)

UnaryExpression_build(operator, E) ==
    IF ~E.ok THEN E
    ELSE Ok(<<T(operator), T("(")>> \o E.sql \o <<T(")")>>, E.params)

\* The first failed build of a sequence of builds, in order.
FirstError(rs) == rs[CHOOSE i \in DOMAIN rs : ~rs[i].ok /\ \A j \in 1..(i-1) : rs[j].ok]
AllOk(rs) == \A i \in DOMAIN rs : rs[i].ok

FunctionExpression_build(f, As, F) ==
    IF ~AllOk(As) THEN FirstError(As)
    ELSE
    LET args_part0 == Join(<<T(",")>>, [i \in DOMAIN As |-> As[i].sql])
        args_part == IF f.distinct /\ args_part0 # <<>>
                     THEN <<T("DISTINCT")>> \o args_part0 ELSE args_part0
        sql0 == <<T(f.name), T("(")>> \o args_part \o <<T(")")>>
        params0 == Flatten([i \in DOMAIN As |-> As[i].params])
        hasFilter == f.filter_condition # NoneObj
    IN  IF hasFilter /\ ~F.ok THEN F
        ELSE
        LET sql1 == IF hasFilter
                    THEN sql0 \o <<T("FILTER"), T("("), T("WHERE")>> \o F.sql \o <<T(")")>>
                    ELSE sql0
            params1 == IF hasFilter THEN params0 \o F.params ELSE params0
            sql2 == IF f.over_clause # ""
                    THEN sql1 \o <<T("OVER"), T("("), T(f.over_clause), T(")")>>
                    ELSE sql1
        IN  Ok(sql2, params1)

\* Ws: the WHEN branches as built pairs <<condition, value>>; E: the built ELSE.
\* CaseExpression_build passing each branch's value parameters before its
\* condition parameters.
CaseExpression_build_swapped(c, Ws, E) ==
    IF c.when_clauses = <<>> THEN Raise("EmptyCase")
    ELSE
    LET flat == Flatten(Ws) IN
    IF ~AllOk(flat) THEN FirstError(flat)
    ELSE IF c.else_clause # NoneObj /\ ~E.ok THEN E
    ELSE
    LET whens == Flatten([i \in DOMAIN Ws |->
                    <<T("WHEN")>> \o Ws[i][1].sql \o <<T("THEN")>> \o Ws[i][2].sql])
        wparams == Flatten([i \in DOMAIN Ws |-> Ws[i][2].params \o Ws[i][1].params])
    IN  IF c.else_clause # NoneObj
        THEN Ok(<<T("CASE")>> \o whens \o <<T("ELSE")>> \o E.sql \o <<T("END")>>,
                wparams \o E.params)
        ELSE Ok(<<T("CASE")>> \o whens \o <<T("END")>>, wparams)

CaseExpression_build(c, Ws, E) ==
    IF c.when_clauses = <<>> THEN Raise("EmptyCase")
    ELSE
    LET flat == Flatten(Ws) IN
    IF ~AllOk(flat) THEN FirstError(flat)
    ELSE IF c.else_clause # NoneObj /\ ~E.ok THEN E
    ELSE
    LET whens == Flatten([i \in DOMAIN Ws |->
                    <<T("WHEN")>> \o Ws[i][1].sql \o <<T("THEN")>> \o Ws[i][2].sql])
        wparams == Flatten([i \in DOMAIN Ws |-> Ws[i][1].params \o Ws[i][2].params])
    IN  IF c.else_clause # NoneObj
        THEN Ok(<<T("CASE")>> \o whens \o <<T("ELSE")>> \o E.sql \o <<T("END")>>,
                wparams \o E.params)
        ELSE Ok(<<T("CASE")>> \o whens \o <<T("END")>>, wparams)

Condition_build(L, operator, R) ==
    IF ~L.ok THEN L ELSE IF ~R.ok THEN R
    ELSE IF operator \in {"IS NULL", "IS NOT NULL"}
    THEN Ok(L.sql \o <<T(operator)>>, L.params)
    ELSE Ok(L.sql \o <<T(operator)>> \o R.sql, L.params \o R.params)

ConditionTree_build(operator, L, R) ==
    IF ~L.ok THEN L ELSE IF ~R.ok THEN R
    ELSE Ok(<<T("(")>> \o L.sql \o <<T(")"), T(operator), T("(")>> \o R.sql \o <<T(")")>>,
            L.params \o R.params)

NotCondition_build(C) ==
    IF ~C.ok THEN C ELSE Ok(<<T("NOT"), T("(")>> \o C.sql \o <<T(")")>>, C.params)

OrderExpression_build(E, direction) ==
    IF ~E.ok THEN E ELSE Ok(E.sql \o <<T(direction)>>, E.params)

\* obj.build() for any object a clause list can hold, with the CaseExpression
\* objects as they are in heap h.  An object with no build method (a ColumnInfo,
\* a plain value) raises AttributeError.
RECURSIVE buildIn(_, _)
buildIn(h, e) ==
    CASE e.kind = "raw" -> Expression_build(e)
      [] e.kind = "lit" -> LiteralExpression_build(e.value)
      [] e.kind = "null" -> NullExpression_build
      [] e.kind = "alias" -> Alias_build(buildIn(h, e.expression), e.alias)
      [] e.kind = "bin" ->
            BinaryExpression_build(buildIn(h, e.left), e.operator, buildIn(h, e.right))
      [] e.kind = "un" -> UnaryExpression_build(e.operator, buildIn(h, e.operand))
      [] e.kind = "fn" ->
            FunctionExpression_build(e, [i \in DOMAIN e.args |-> buildIn(h, e.args[i])],
                IF e.filter_condition = NoneObj THEN Raise("unused")
                ELSE buildIn(h, e.filter_condition))
      [] e.kind = "case" ->
            LET c == h[e.id] IN
            CaseExpression_build(c,
                [i \in DOMAIN c.when_clauses |->
                    <<buildIn(h, c.when_clauses[i][1]), buildIn(h, c.when_clauses[i][2])>>],
                IF c.else_clause = NoneObj THEN Raise("unused")
                ELSE buildIn(h, c.else_clause))
      [] e.kind = "cond" ->
            Condition_build(buildIn(h, e.left), e.operator, buildIn(h, e.right))
      [] e.kind = "tree" ->
            ConditionTree_build(e.operator, buildIn(h, e.left), buildIn(h, e.right))
      [] e.kind = "not" -> NotCondition_build(buildIn(h, e.condition))
      [] e.kind = "order" -> OrderExpression_build(buildIn(h, e.expression), e.direction)
      [] e.kind = "ccond" -> ColumnCondition_build(e)
      [] e.kind = "ctree" ->
            ColumnConditionTree_build(e.joiner, buildIn(h, e.left), buildIn(h, e.right))
      [] e.kind = "cnot" -> ColumnNotCondition_build(buildIn(h, e.condition))
      [] OTHER -> Raise("AttributeError")

build(e) == buildIn(cases, e)

(* Operations of class Expression.  An operation that raises returns Failed(err). *)

Failed(err) == [kind |-> "failed", err |-> err]

Expression_as_alias(self, alias) == Alias(self, alias)
Expression_arith(self, operator, other) ==
    BinaryExpression(self, operator, to_expression(other))
Expression_rarith(self, operator, other) ==
    BinaryExpression(to_expression(other), operator, self)
Expression_compare(self, operator, other) == Condition(self, operator, to_expression(other))

InList(values) ==
    Expression(<<T("(")>>
                 \o Join(<<T(",")>>, [i \in DOMAIN values |-> <<Ph(values[i])>>])
                 \o <<T(")")>>,
               values)

Expression_in_(self, values) ==
    IF values.kind \in BaseExpressionKinds THEN Condition(self, "IN", values)
    ELSE IF values.kind = "pyseq"
    THEN IF values.items = <<>>
         THEN Condition(LiteralExpression("'1'"), "=", LiteralExpression("'0'"))
         ELSE Condition(self, "IN", InList(values.items))
    ELSE Failed("TypeError")

Expression_not_in_(self, values) ==
    IF values.kind \in BaseExpressionKinds THEN Condition(self, "NOT IN", values)
    ELSE IF values.kind = "pyseq"
    THEN IF values.items = <<>>
         THEN Condition(LiteralExpression("'1'"), "=", LiteralExpression("'1'"))
         ELSE Condition(self, "NOT IN", InList(values.items))
    ELSE Failed("TypeError")

Expression_like(self, pattern) == Condition(self, "LIKE", to_expression(pattern))
Expression_is_null(self) == Condition(self, "IS NULL", NullExpression)
Expression_is_not_null(self) == Condition(self, "IS NOT NULL", NullExpression)

Condition_and(self, other) == ConditionTree("AND", self, other)
Condition_or(self, other) == ConditionTree("OR", self, other)
Condition_invert(self) == NotCondition(self)

ConditionTree_and(self, other) == ConditionTree("AND", self, other)
ConditionTree_or(self, other) == ConditionTree("OR", self, other)
\* class ConditionTree defines no __invert__, class NotCondition no __and__,
\* __or__ or __invert__, and BaseExpression none of them: the operator raises
\* TypeError.
ConditionTree_invert(self) == Failed("TypeError")
NotCondition_and(self, other) == Failed("TypeError")
NotCondition_or(self, other) == Failed("TypeError")
NotCondition_invert(self) == Failed("TypeError")

\* between() builds both bounds when it is called, in heap h.
Expression_between(h, self, start, end) ==
    LET S == buildIn(h, to_expression(start))
        E == buildIn(h, to_expression(end))
    IN  IF ~S.ok THEN Failed(S.err)
        ELSE IF ~E.ok THEN Failed(E.err)
        ELSE Condition(self, "BETWEEN",
                       Expression(S.sql \o <<T("AND")>> \o E.sql, S.params \o E.params))

Expression_not_between(h, self, start, end) ==
    LET b == Expression_between(h, self, start, end) IN
    IF b.kind = "failed" THEN b ELSE Condition_invert(b)

Expression_asc(self) == OrderExpression(self, "ASC")
Expression_desc(self) == OrderExpression(self, "DESC")
Expression_neg(self) == UnaryExpression("-", self)

Upper(name) ==
    CASE name = "sum" -> "SUM" [] name = "count" -> "COUNT" [] OTHER -> name

NewFunctionExpression(name, args, distinct, filter_condition, over_clause) ==
    FunctionExpression(Upper(name), args, distinct, filter_condition, over_clause)

func(name, args) ==
    NewFunctionExpression(name, [i \in DOMAIN args |-> to_expression(args[i])],
                          FALSE, NoneObj, "")

FunctionExpression_with_distinct(self) ==
    NewFunctionExpression(self.name, self.args, TRUE, self.filter_condition, self.over_clause)
FunctionExpression_filter(self, condition) ==
    NewFunctionExpression(self.name, self.args, self.distinct, condition, self.over_clause)
FunctionExpression_over(self, clause) ==
    NewFunctionExpression(self.name, self.args, self.distinct, self.filter_condition, clause)

\* CaseExpression(): a fresh object; when() and else_() act on the object and
\* return it.  These give the object's new state.
NewCaseExpression == [when_clauses |-> <<>>, else_clause |-> NoneObj]
CaseExpression_when(c, condition, value) ==
    [c EXCEPT !.when_clauses = Append(@, <<condition, to_expression(value)>>)]
CaseExpression_else_(c, value) == [c EXCEPT !.else_clause = to_expression(value)]

---------------------------------------------------------------------------
(* Tables (entities/table.py): the classes the builders are bound to.  A table
   is its class name, its Meta.table_name, its column fields in declaration
   order, its primary-key fields, and, for a row instance, its field values. *)

User == [name |-> "User", table_name |-> "users", fields |-> <<"id", "email", "age">>,
         pk |-> {"id"}, row |-> <<"1", "'a@b.c'", "30">>]
Post == [name |-> "Post", table_name |-> "posts", fields |-> <<"id", "user_id", "title">>,
         pk |-> {"id"}, row |-> <<"7", "1", "'t'">>]
Tag == [name |-> "Tag", table_name |-> "tags", fields |-> <<"id">>,
        pk |-> {"id"}, row |-> <<"3">>]

Range(f) == {f[i] : i \in DOMAIN f}
HasField(table, field) == field \in Range(table.fields)
pgantics_field(table, field) == ColumnInfo(table.table_name, field)

\* TABLE_REGISTRY after the three classes above were declared, in that order.
Registered == <<User, Post, Tag>>
IsRegistered(cls_name) ==
    \E i \in DOMAIN Registered :
        Registered[i].name = cls_name \/ Registered[i].table_name = cls_name
TableRegister_get(cls_name) ==
    IF \E i \in DOMAIN Registered : Registered[i].name = cls_name
    THEN Registered[CHOOSE i \in DOMAIN Registered : Registered[i].name = cls_name]
    ELSE Registered[CHOOSE i \in DOMAIN Registered :
                        /\ Registered[i].table_name = cls_name
                        /\ \A j \in 1..(i-1) : Registered[j].table_name # cls_name]

\* A Python str naming a column: its parts between dots ('.' in s iff two parts).
Str(parts) == [kind |-> "str", parts |-> parts]

\* registry.py: a Register holds a dict from class name to class, here the
\* sequence of its <<name, class>> items in insertion order.
NewRegister(registry_type) == [registry_type |-> registry_type, registry |-> <<>>]

\* TABLE_REGISTRY once the table classes above are declared.
TABLE_REGISTRY ==
    [registry_type |-> "Table",
     registry |-> [i \in DOMAIN Registered |-> <<Registered[i].name, Registered[i]>>]]

\* register() replacing the class stored under a name already registered.
Register_register_overwrite(r, cls) ==
    [ok |-> TRUE, err |-> "",
     r |-> [r EXCEPT !.registry =
              IF \E i \in DOMAIN @ : @[i][1] = cls.name
              THEN [i \in DOMAIN @ |-> IF @[i][1] = cls.name THEN <<cls.name, cls>> ELSE @[i]]
              ELSE Append(@, <<cls.name, cls>>)]]

Register_register(r, cls) ==
    IF \E i \in DOMAIN r.registry : r.registry[i][1] = cls.name
    THEN [ok |-> FALSE, err |-> "AlreadyRegisteredError", r |-> r]
    ELSE [ok |-> TRUE, err |-> "",
          r |-> [r EXCEPT !.registry = Append(@, <<cls.name, cls>>)]]

Register_get(r, cls_name) ==
    IF \E i \in DOMAIN r.registry : r.registry[i][1] = cls_name
    THEN [ok |-> TRUE, err |-> "",
          cls |-> r.registry[CHOOSE i \in DOMAIN r.registry : r.registry[i][1] = cls_name][2]]
    ELSE [ok |-> FALSE, err |-> "NotRegisteredError", cls |-> NoneObj]

\* The first class, in insertion order, whose Meta.table_name is table_name.
TableRegister_get_by_name(r, table_name) ==
    IF \E i \in DOMAIN r.registry : r.registry[i][2].table_name = table_name
    THEN [ok |-> TRUE, err |-> "",
          cls |-> r.registry[CHOOSE i \in DOMAIN r.registry :
                                /\ r.registry[i][2].table_name = table_name
                                /\ \A j \in 1..(i - 1) :
                                      r.registry[j][2].table_name # table_name][2]]
    ELSE [ok |-> FALSE, err |-> "NotRegisteredError", cls |-> NoneObj]

\* get() of the registry object r: TableRegister overrides Register.get.
Registry_get(r, cls_name) ==
    IF r.registry_type = "Table"
    THEN IF Register_get(r, cls_name).ok THEN Register_get(r, cls_name)
         ELSE TableRegister_get_by_name(r, cls_name)
    ELSE Register_get(r, cls_name)

---------------------------------------------------------------------------
(* query/select.py *)

NewJoin(table, join_type) ==
    [table |-> table.table_name, join_type |-> join_type, on_condition |-> NoneObj]

Select(table) ==
    [kind |-> "select", table |-> table,
     select_columns |-> <<>>, joins |-> <<>>, where_conditions |-> <<>>,
     order_by_expressions |-> <<>>, limit_value |-> None, offset_value |-> None,
     distinct |-> FALSE, group_by_expressions |-> <<>>, having_conditions |-> <<>>]

\* Join._build without the check for a missing ON condition.
Join_build_unchecked(h, join) ==
    IF join.join_type \in {"NATURAL", "CROSS"} \/ join.on_condition = NoneObj
    THEN Ok(<<T(join.join_type), T("JOIN"), T(join.table)>>, <<>>)
    ELSE LET C == buildIn(h, join.on_condition) IN
         IF ~C.ok THEN C
         ELSE Ok(<<T(join.join_type), T("JOIN"), T(join.table), T("ON")>> \o C.sql, C.params)

Join_build(h, join) ==
    IF join.join_type \in {"NATURAL", "CROSS"}
    THEN Ok(<<T(join.join_type), T("JOIN"), T(join.table)>>, <<>>)
    ELSE IF join.on_condition = NoneObj THEN Raise("MissingJoinCondition")
    ELSE LET C == buildIn(h, join.on_condition) IN
         IF ~C.ok THEN C
         ELSE Ok(<<T(join.join_type), T("JOIN"), T(join.table), T("ON")>> \o C.sql, C.params)

\* One clause of a statement: kw, then the built items joined by sep, each
\* wrapped in parentheses when wrap; nothing when there is no item.
Clause(kw, sep, wrap, Rs) ==
    IF Rs = <<>> THEN Ok(<<>>, <<>>)
    ELSE IF ~AllOk(Rs) THEN FirstError(Rs)
    ELSE Ok(kw \o Join(sep, [i \in DOMAIN Rs |->
                    IF wrap THEN <<T("(")>> \o Rs[i].sql \o <<T(")")>> ELSE Rs[i].sql]),
            Flatten([i \in DOMAIN Rs |-> Rs[i].params]))

\* The statement: its parts in order, joined; the first part that raised, if any.
Statement(parts) ==
    IF ~AllOk(parts) THEN FirstError(parts)
    ELSE Ok(Flatten([i \in DOMAIN parts |-> parts[i].sql]),
            Flatten([i \in DOMAIN parts |-> parts[i].params]))

\* SelectColumn_build rendering a column by its bare field name.
SelectColumn_build_bare(h, col) ==
    IF col.kind = "col" THEN Ok(<<T(col.field)>>, <<>>)
    ELSE IF col.kind \in BaseExpressionKinds THEN buildIn(h, col)
    ELSE Raise("TypeError")

SelectColumn_build(h, col) ==
    IF col.kind = "col" THEN Ok(<<T(ColumnInfo_str(col))>>, <<>>)
    ELSE IF col.kind \in BaseExpressionKinds THEN buildIn(h, col)
    ELSE Raise("TypeError")

SelectPart(h, b) ==
    LET head == IF b.distinct THEN <<T("SELECT"), T("DISTINCT")>> ELSE <<T("SELECT")>>
        Rs == [i \in DOMAIN b.select_columns |-> SelectColumn_build(h, b.select_columns[i])]
    IN  IF Rs = <<>> THEN Ok(head \o <<T("*")>>, <<>>)
        ELSE Clause(head, <<T(",")>>, FALSE, Rs)

LimitPart(kw, value) ==
    IF value # None THEN Ok(<<T(kw), Ph(value)>>, <<value>>) ELSE Ok(<<>>, <<>>)

BuildEach(h, exprs) == [i \in DOMAIN exprs |-> buildIn(h, exprs[i])]

\* Select.build emitting its clauses in the order the caller happened to fill
\* them in, here GROUP BY before WHERE.
Select_build_unordered(h, b) ==
    Statement(<<
        SelectPart(h, b),
        Ok(<<T("FROM"), T(b.table.table_name)>>, <<>>),
        Statement([i \in DOMAIN b.joins |-> Join_build(h, b.joins[i])]),
        Clause(<<T("GROUP BY")>>, <<T(",")>>, FALSE, BuildEach(h, b.group_by_expressions)),
        Clause(<<T("WHERE")>>, <<T("AND")>>, TRUE, BuildEach(h, b.where_conditions)),
        Clause(<<T("HAVING")>>, <<T("AND")>>, TRUE, BuildEach(h, b.having_conditions)),
        Clause(<<T("ORDER BY")>>, <<T(",")>>, FALSE, BuildEach(h, b.order_by_expressions)),
        LimitPart("LIMIT", b.limit_value),
        LimitPart("OFFSET", b.offset_value) >>)

Select_build(h, b) ==
    Statement(<<
        SelectPart(h, b),
        Ok(<<T("FROM"), T(b.table.table_name)>>, <<>>),
        Statement([i \in DOMAIN b.joins |-> Join_build(h, b.joins[i])]),
        Clause(<<T("WHERE")>>, <<T("AND")>>, TRUE, BuildEach(h, b.where_conditions)),
        Clause(<<T("GROUP BY")>>, <<T(",")>>, FALSE, BuildEach(h, b.group_by_expressions)),
        Clause(<<T("HAVING")>>, <<T("AND")>>, TRUE, BuildEach(h, b.having_conditions)),
        Clause(<<T("ORDER BY")>>, <<T(",")>>, FALSE, BuildEach(h, b.order_by_expressions)),
        LimitPart("LIMIT", b.limit_value),
        LimitPart("OFFSET", b.offset_value) >>)

\* A fluent call: the builder after it, and whether (and how) it raised.
Done(b) == [b |-> b, ok |-> TRUE, err |-> ""]
Fail(b, err) == [b |-> b, ok |-> FALSE, err |-> err]

\* select(*columns): the loop appends column by column and stops at the first
\* column that raises, keeping what it appended before.
RECURSIVE Select_select(_, _)
Select_select(b, columns) ==
    IF columns = <<>> THEN Done(b)
    ELSE
    LET col == Head(columns) IN
    IF col.kind = "str"
    THEN IF Len(col.parts) > 1 /\ ~IsRegistered(col.parts[1])
         THEN Fail(b, "NotRegisteredError")
         ELSE
         LET table == IF Len(col.parts) > 1 THEN TableRegister_get(col.parts[1])
                      ELSE b.table
             column == col.parts[Len(col.parts)]
         IN  IF ~HasField(table, column) THEN Fail(b, "UnknownColumn")
             ELSE Select_select(
                    [b EXCEPT !.select_columns = Append(@, pgantics_field(table, column))],
                    Tail(columns))
    ELSE Select_select([b EXCEPT !.select_columns = Append(@, col)], Tail(columns))

Select_distinct(b) == Done([b EXCEPT !.distinct = TRUE])

Select_join(b, table, join_type) ==
    Done([b EXCEPT !.joins = Append(@, NewJoin(table, join_type))])

\* Join.on(condition) on the i-th join attached to the builder.
Join_on(b, i, condition) == Done([b EXCEPT !.joins[i].on_condition = condition])

\* where() putting the new condition in front of the earlier ones.
Select_where_prepend(b, condition) ==
    Done([b EXCEPT !.where_conditions = <<condition>> \o @])

Select_where(b, condition) == Done([b EXCEPT !.where_conditions = Append(@, condition)])

ColumnRef(b, expr) ==
    IF Len(expr.parts) > 1
    THEN Expression(<<T(expr.parts[1] \o "." \o expr.parts[2])>>, <<>>)
    ELSE Expression(<<T(b.table.table_name \o "." \o expr.parts[1])>>, <<>>)

RECURSIVE Select_group_by(_, _)
Select_group_by(b, expressions) ==
    IF expressions = <<>> THEN Done(b)
    ELSE
    LET expr == Head(expressions) IN
    IF expr.kind = "str"
    THEN Select_group_by([b EXCEPT !.group_by_expressions = Append(@, ColumnRef(b, expr))],
                         Tail(expressions))
    ELSE Select_group_by([b EXCEPT !.group_by_expressions = Append(@, expr)],
                         Tail(expressions))

Select_having(b, condition) == Done([b EXCEPT !.having_conditions = Append(@, condition)])

RECURSIVE Select_order_by(_, _)
Select_order_by(b, expressions) ==
    IF expressions = <<>> THEN Done(b)
    ELSE
    LET expr == Head(expressions) IN
    IF expr.kind = "order"
    THEN Select_order_by([b EXCEPT !.order_by_expressions = Append(@, expr)],
                         Tail(expressions))
    ELSE IF expr.kind = "str"
    THEN Select_order_by(
            [b EXCEPT !.order_by_expressions = Append(@, Expression_asc(ColumnRef(b, expr)))],
            Tail(expressions))
    ELSE IF expr.kind \in ExpressionKinds
    THEN Select_order_by([b EXCEPT !.order_by_expressions = Append(@, Expression_asc(expr))],
                         Tail(expressions))
    ELSE Fail(b, "TypeError")

\* Counts are integers; the stored value is the parameter it becomes.
IntParam(n) == CASE n = 0 -> "0" [] n = 10 -> "10" [] n = 20 -> "20" [] OTHER -> "int"

Select_limit(b, count) ==
    IF count < 0 THEN Fail(b, "NegativeBound")
    ELSE Done([b EXCEPT !.limit_value = IntParam(count)])

Select_offset(b, count) ==
    IF count < 0 THEN Fail(b, "NegativeBound")
    ELSE Done([b EXCEPT !.offset_value = IntParam(count)])

Select_count(b) ==
    Done([b EXCEPT !.select_columns = <<Expression(<<T("COUNT(*)")>>, <<>>)>>])

---------------------------------------------------------------------------
(* query/update.py, query/delete.py *)

Unset == [set |-> FALSE, items |-> <<>>]
SetTo(items) == [set |-> TRUE, items |-> items]

Update(table) ==
    [kind |-> "update", table |-> table, columns |-> Unset, overrides |-> <<>>,
     joins |-> <<>>, where_conditions |-> <<>>, returning |-> Unset]

Delete(table) ==
    [kind |-> "delete", table |-> table,
     where_conditions |-> <<>>, joins |-> <<>>, returning |-> Unset]

NewStatementJoin(table) == [table |-> table.table_name, on_condition |-> NoneObj]

\* A dict as the sequence of its <<key, value>> items in insertion order.
Keys(d) == {d[i][1] : i \in DOMAIN d}
DictSet(d, key, val) ==
    IF key \in Keys(d)
    THEN [i \in DOMAIN d |-> IF d[i][1] = key THEN <<key, val>> ELSE d[i]]
    ELSE Append(d, <<key, val>>)
RECURSIVE DictUpdate(_, _)
DictUpdate(d, other) ==
    IF other = <<>> THEN d
    ELSE DictUpdate(DictSet(d, other[1][1], other[1][2]), Tail(other))

SelectSeq2(seq, Keep(_)) ==
    LET F[i \in 0..Len(seq)] ==
            IF i = 0 THEN <<>>
            ELSE IF Keep(seq[i]) THEN Append(F[i-1], seq[i]) ELSE F[i-1]
    IN  F[Len(seq)]

\* table.model_dump(mode='json', include=..., exclude=...): the row's fields in
\* declaration order; include (when given) and exclude are sets of field names.
model_dump(table, hasInclude, include, exclude) ==
    LET keep(i) == /\ (hasInclude => table.fields[i] \in include)
                   /\ table.fields[i] \notin exclude
        idx == SelectSeq2([i \in DOMAIN table.fields |-> i], keep)
    IN  [k \in DOMAIN idx |-> <<table.fields[idx[k]], PyVal(table.row[idx[k]])>>]

\* JoinConditions leaving the ON conditions out of the where list.
JoinConditions_dropped(joins) == <<>>

\* The join ON conditions build() appends to the builder's where list.
JoinConditions(joins) ==
    LET on == SelectSeq2(joins, LAMBDA j : j.on_condition # NoneObj)
    IN  [i \in DOMAIN on |-> on[i].on_condition]

\* The WHERE clause without the guard against an empty condition list.
WherePart_unguarded(Rs, missing) ==
    Clause(<<T("WHERE")>>, <<T("AND")>>, TRUE, Rs)

WherePart(Rs, missing) ==
    IF Rs = <<>> THEN Raise(missing)
    ELSE Clause(<<T("WHERE")>>, <<T("AND")>>, TRUE, Rs)

\* ReturningPart rendering a RETURNING clause whether or not one was asked for.
ReturningPart_always(returning) ==
    IF "*" \in Range(returning.items) \/ returning.items = <<>>
    THEN Ok(<<T("RETURNING"), T("*")>>, <<>>)
    ELSE Ok(<<T("RETURNING")>>
              \o Join(<<T(",")>>, [i \in DOMAIN returning.items |-> <<T(returning.items[i])>>]),
            <<>>)

ReturningPart(returning) ==
    IF returning.items = <<>> THEN Ok(<<>>, <<>>)
    ELSE IF "*" \in Range(returning.items) THEN Ok(<<T("RETURNING"), T("*")>>, <<>>)
    ELSE Ok(<<T("RETURNING")>>
              \o Join(<<T(",")>>, [i \in DOMAIN returning.items |-> <<T(returning.items[i])>>]),
            <<>>)

Update_model_data(b) ==
    DictUpdate(
        IF b.columns.items # <<>>
        THEN model_dump(b.table, TRUE, Range(b.columns.items), {})
        ELSE model_dump(b.table, FALSE, {}, b.table.pk),
        b.overrides)

SetPart(h, model_data) ==
    LET Rs == [i \in DOMAIN model_data |->
                 LET V == buildIn(h, to_expression(model_data[i][2])) IN
                 IF ~V.ok THEN V
                 ELSE Ok(<<T(model_data[i][1]), T("=")>> \o V.sql, V.params)]
    IN  Clause(<<T("SET")>>, <<T(",")>>, FALSE, Rs)

\* The builder as build() leaves it: every join ON condition appended to the
\* builder's own where list (update.py 63-65, delete.py 47-49).
FoldJoins(b) ==
    [b EXCEPT !.where_conditions = @ \o JoinConditions(b.joins)]

\* build(): the result r and the builder b as the call leaves it.
Update_build(h, b) ==
    LET model_data == Update_model_data(b) IN
    IF model_data = <<>> THEN [r |-> Raise("EmptySet"), b |-> b]
    ELSE
    LET S == SetPart(h, model_data) IN
    IF ~S.ok THEN [r |-> S, b |-> b]
    ELSE
    LET b2 == IF b.joins # <<>> THEN FoldJoins(b) ELSE b
        from == IF b.joins # <<>>
                THEN Ok(<<T("FROM")>>
                          \o Join(<<T(",")>>, [i \in DOMAIN b.joins |-> <<T(b.joins[i].table)>>]),
                        <<>>)
                ELSE Ok(<<>>, <<>>)
    IN  [r |-> Statement(<<
                 Ok(<<T("UPDATE"), T(b.table.table_name)>>, <<>>),
                 S,
                 from,
                 WherePart(BuildEach(h, b2.where_conditions), "MissingWhere"),
                 ReturningPart(b.returning) >>),
         b |-> b2]

Delete_build(h, b) ==
    LET b2 == IF b.joins # <<>> THEN FoldJoins(b) ELSE b
        using == IF b.joins # <<>>
                 THEN Ok(<<T("USING")>>
                           \o Join(<<T(",")>>, [i \in DOMAIN b.joins |-> <<T(b.joins[i].table)>>]),
                         <<>>)
                 ELSE Ok(<<>>, <<>>)
    IN  [r |-> Statement(<<
                 Ok(<<T("DELETE FROM"), T(b.table.table_name)>>, <<>>),
                 using,
                 WherePart(BuildEach(h, b2.where_conditions), "MissingWhere"),
                 ReturningPart(b.returning) >>),
         b |-> b2]

Statement_join(b, table) == Done([b EXCEPT !.joins = Append(@, NewStatementJoin(table))])
Statement_where(b, condition) ==
    Done([b EXCEPT !.where_conditions = Append(@, condition)])

Delete_delete_all(b) ==
    Done([b EXCEPT !.where_conditions = Append(@, LiteralExpression("True"))])

\* class Update defines no update_all: the call raises AttributeError.
Update_update_all(b) == Fail(b, "AttributeError")

\* update(*columns): resets the subset, then appends str(col) of each column
\* (the table-qualified name) and stops at the first column that raises.
RECURSIVE Update_columns(_, _)
Update_columns(b, columns) ==
    IF columns = <<>> THEN Done(b)
    ELSE
    LET col == Head(columns) IN
    IF col.kind = "str"
    THEN IF Len(col.parts) > 1 /\ ~IsRegistered(col.parts[1])
         THEN Fail(b, "NotRegisteredError")
         ELSE
         LET table == IF Len(col.parts) > 1 THEN TableRegister_get(col.parts[1])
                      ELSE b.table
             column == col.parts[Len(col.parts)]
         IN  IF ~HasField(table, column) THEN Fail(b, "UnknownColumn")
             ELSE Update_columns(
                    [b EXCEPT !.columns.items =
                        Append(@, ColumnInfo_str(pgantics_field(table, column)))],
                    Tail(columns))
    ELSE Update_columns([b EXCEPT !.columns.items = Append(@, ColumnInfo_str(col))],
                        Tail(columns))

Update_update(b, columns) ==
    IF columns = <<>> THEN Done([b EXCEPT !.columns = Unset])
    ELSE Update_columns([b EXCEPT !.columns = SetTo(<<>>)], columns)

\* override(updates): updates is a dict, here its <<key, value>> items.
RECURSIVE Update_override(_, _)
Update_override(b, updates) ==
    IF updates = <<>> THEN Done(b)
    ELSE
    LET key == updates[1][1]
        val == updates[1][2]
    IN  IF key.kind \notin {"col", "str"} THEN Fail(b, "TypeError")
        ELSE
        LET column_name == IF key.kind = "col" THEN key.field
                           ELSE key.parts[Len(key.parts)]
        IN  IF ~HasField(b.table, column_name) THEN Fail(b, "UnknownColumn")
            ELSE Update_override([b EXCEPT !.overrides = DictSet(@, column_name, val)],
                                 Tail(updates))

---------------------------------------------------------------------------
(* query/insert.py *)

Insert(table) ==
    [kind |-> "insert", table |-> table, columns |-> Unset, overrides |-> <<>>,
     returning |-> Unset, on_conflict_target |-> Unset, on_conflict_action |-> None,
     on_conflict_update |-> Unset, select_query |-> NoneObj]

\* BulkInsert.__init__ does not call Insert.__init__: the object has no table,
\* no _overrides and no _select_query attribute.
BulkInsert(tables) ==
    [kind |-> "bulk", tables |-> tables, columns |-> Unset, returning |-> Unset,
     on_conflict_target |-> Unset, on_conflict_action |-> None,
     on_conflict_update |-> Unset]

DictGet(d, key) ==
    IF key \in Keys(d) THEN d[CHOOSE i \in DOMAIN d : d[i][1] = key][2] ELSE PyVal(None)

DictKeys(d) == [i \in DOMAIN d |-> d[i][1]]

Insert_model_data(b) ==
    DictUpdate(
        IF b.columns.items # <<>>
        THEN model_dump(b.table, TRUE, Range(b.columns.items), {})
        ELSE model_dump(b.table, FALSE, {}, {}),
        b.overrides)

\* The columns of the INSERT: the keys of model_data that are table columns.
Insert_columns(b) ==
    SelectSeq2(DictKeys(Insert_model_data(b)), LAMBDA col : HasField(b.table, col))

\* Insert._build_values(table, columns): one row of values.
Insert_build_values(b, table, columns) ==
    LET dump == DictUpdate(
                    IF b.columns.items # <<>>
                    THEN model_dump(table, TRUE, Range(b.columns.items), {})
                    ELSE SelectSeq2(model_dump(table, FALSE, {}, {}),
                                    LAMBDA item : item[1] \in Range(columns)),
                    b.overrides)
    IN  << [i \in DOMAIN columns |-> DictGet(dump, columns[i])] >>

ValueGroup(row_values) ==
    Ok(<<T("(")>>
         \o Join(<<T(",")>>, [i \in DOMAIN row_values |-> <<Ph(ParamOf(row_values[i]))>>])
         \o <<T(")")>>,
       [i \in DOMAIN row_values |-> ParamOf(row_values[i])])

ValuesPart(values) ==
    LET groups == [k \in DOMAIN values |-> ValueGroup(values[k])] IN
    Ok(<<T("VALUES")>> \o Join(<<T(",")>>, [k \in DOMAIN groups |-> groups[k].sql]),
       Flatten([k \in DOMAIN groups |-> groups[k].params]))

\* ConflictSetPart passing no parameter for a plain value.
ConflictSetPart_noparams(h, updates) ==
    LET Rs == [i \in DOMAIN updates |->
                 IF updates[i][2].kind \in BaseExpressionKinds
                 THEN LET V == buildIn(h, updates[i][2]) IN
                      IF ~V.ok THEN V
                      ELSE Ok(<<T(updates[i][1]), T("=")>> \o V.sql, V.params)
                 ELSE Ok(<<T(updates[i][1]), T("="), Ph(ParamOf(updates[i][2]))>>, <<>>)]
    IN  Clause(<<T("DO UPDATE SET")>>, <<T(",")>>, FALSE, Rs)

ConflictSetPart(h, updates) ==
    LET Rs == [i \in DOMAIN updates |->
                 IF updates[i][2].kind \in BaseExpressionKinds
                 THEN LET V == buildIn(h, updates[i][2]) IN
                      IF ~V.ok THEN V
                      ELSE Ok(<<T(updates[i][1]), T("=")>> \o V.sql, V.params)
                 ELSE Ok(<<T(updates[i][1]), T("="), Ph(ParamOf(updates[i][2]))>>,
                         <<ParamOf(updates[i][2])>>)]
    IN  Clause(<<T("DO UPDATE SET")>>, <<T(",")>>, FALSE, Rs)

\* ConflictPart without the check for an empty DO UPDATE mapping.
ConflictPart_unchecked(h, b) ==
    IF ~b.on_conflict_target.set THEN Ok(<<>>, <<>>)
    ELSE
    LET target == Ok(<<T("ON CONFLICT"), T("(")>>
                       \o Join(<<T(",")>>, [i \in DOMAIN b.on_conflict_target.items |->
                                               <<T(b.on_conflict_target.items[i])>>])
                       \o <<T(")")>>, <<>>)
    IN  IF b.on_conflict_action = "DO NOTHING"
        THEN Statement(<<target, Ok(<<T("DO NOTHING")>>, <<>>)>>)
        ELSE IF b.on_conflict_action = "DO UPDATE"
        THEN IF b.on_conflict_update.items = <<>>
             THEN Statement(<<target, Ok(<<T("DO UPDATE SET")>>, <<>>)>>)
             ELSE Statement(<<target, ConflictSetPart(h, b.on_conflict_update.items)>>)
        ELSE target

ConflictPart(h, b) ==
    IF ~b.on_conflict_target.set THEN Ok(<<>>, <<>>)
    ELSE
    LET target == Ok(<<T("ON CONFLICT"), T("(")>>
                       \o Join(<<T(",")>>, [i \in DOMAIN b.on_conflict_target.items |->
                                               <<T(b.on_conflict_target.items[i])>>])
                       \o <<T(")")>>, <<>>)
    IN  IF b.on_conflict_action = "DO NOTHING"
        THEN Statement(<<target, Ok(<<T("DO NOTHING")>>, <<>>)>>)
        ELSE IF b.on_conflict_action = "DO UPDATE"
        THEN IF b.on_conflict_update.items = <<>> THEN Raise("EmptySet")
             ELSE Statement(<<target, ConflictSetPart(h, b.on_conflict_update.items)>>)
        ELSE target

\* Insert.build.  On a BulkInsert the first statement that reads self.table
\* raises AttributeError.
Insert_build(h, b) ==
    IF b.kind = "bulk" THEN Raise("AttributeError")
    ELSE
    LET columns == Insert_columns(b) IN
    IF columns = <<>> THEN Raise("NoColumns")
    ELSE Statement(<<
           Ok(<<T("INSERT INTO"), T(b.table.table_name), T("(")>>
                \o Join(<<T(",")>>, [i \in DOMAIN columns |-> <<T(columns[i])>>])
                \o <<T(")")>>, <<>>),
           IF b.select_query # NoneObj THEN Select_build(h, b.select_query)
           ELSE ValuesPart(Insert_build_values(b, b.table, columns)),
           ConflictPart(h, b),
           ReturningPart(b.returning) >>)

\* insert(*columns): resets the subset, then appends str(col) of each column
\* (the table-qualified name) and stops at the first column that raises.
RECURSIVE Insert_named(_, _)
Insert_named(b, columns) ==
    IF columns = <<>> THEN Done(b)
    ELSE
    LET col == Head(columns) IN
    IF col.kind = "str"
    THEN IF Len(col.parts) > 1 /\ ~IsRegistered(col.parts[1])
         THEN Fail(b, "NotRegisteredError")
         ELSE IF Len(col.parts) = 1 /\ b.kind = "bulk" THEN Fail(b, "AttributeError")
         ELSE
         LET table == IF Len(col.parts) > 1 THEN TableRegister_get(col.parts[1])
                      ELSE b.table
             column == col.parts[Len(col.parts)]
         IN  IF ~HasField(table, column) THEN Fail(b, "UnknownColumn")
             ELSE Insert_named(
                    [b EXCEPT !.columns.items =
                        Append(@, ColumnInfo_str(pgantics_field(table, column)))],
                    Tail(columns))
    ELSE Insert_named([b EXCEPT !.columns.items = Append(@, ColumnInfo_str(col))],
                      Tail(columns))

Insert_insert(b, columns) ==
    IF columns = <<>> THEN Done([b EXCEPT !.columns = Unset])
    ELSE Insert_named([b EXCEPT !.columns = SetTo(<<>>)], columns)

\* Insert.override has the code of Update.override; a BulkInsert has neither
\* table nor _overrides.
Insert_override(b, updates) ==
    IF b.kind # "bulk" THEN Update_override(b, updates)
    ELSE IF updates = <<>> THEN Done(b)
    ELSE IF updates[1][1].kind \notin {"col", "str"} THEN Fail(b, "TypeError")
    ELSE Fail(b, "AttributeError")

\* The characters of the strings passed where an iterable is expected.
Chars(s) ==
    CASE s = "email" -> <<"e", "m", "a", "i", "l">>
      [] s = "id" -> <<"i", "d">>
      [] OTHER -> <<s>>

\* on_conflict(targets): the names of the target columns, or the error raised.
\* A ColumnInfo is wrapped in a list; a str is iterated character by character.
RECURSIVE ConflictTargets(_, _, _)
ConflictTargets(b, items, done) ==
    IF items = <<>> THEN [ok |-> TRUE, err |-> "", target |-> done]
    ELSE
    LET item == Head(items) IN
    IF item.kind = "str"
    THEN IF Len(item.parts) > 1 /\ ~IsRegistered(item.parts[1])
         THEN [ok |-> FALSE, err |-> "NotRegisteredError", target |-> <<>>]
         ELSE IF Len(item.parts) = 1 /\ b.kind = "bulk"
         THEN [ok |-> FALSE, err |-> "AttributeError", target |-> <<>>]
         ELSE
         LET table == IF Len(item.parts) > 1 THEN TableRegister_get(item.parts[1])
                      ELSE b.table
             column == item.parts[Len(item.parts)]
         IN  IF ~HasField(table, column)
             THEN [ok |-> FALSE, err |-> "UnknownColumn", target |-> <<>>]
             ELSE ConflictTargets(b, Tail(items), Append(done, column))
    ELSE IF item.kind = "col" THEN ConflictTargets(b, Tail(items), Append(done, item.field))
    ELSE [ok |-> FALSE, err |-> "AttributeError", target |-> <<>>]

Insert_on_conflict(b, targets) ==
    ConflictTargets(b,
        CASE targets.kind = "col" -> <<targets>>
          [] targets.kind = "str" ->
                LET cs == Chars(targets.parts[1]) IN [i \in DOMAIN cs |-> Str(<<cs[i]>>)]
          [] OTHER -> targets.elems,
        <<>>)

OnConflict_do_nothing(b, target) ==
    Done([b EXCEPT !.on_conflict_target = SetTo(target),
                   !.on_conflict_action = "DO NOTHING"])

StrText(s) == IF Len(s.parts) > 1 THEN s.parts[1] \o "." \o s.parts[2] ELSE s.parts[1]

\* do_update(updates): a ColumnInfo key becomes str(key), any other key is kept.
RECURSIVE ConflictUpdates(_, _)
ConflictUpdates(d, updates) ==
    IF updates = <<>> THEN d
    ELSE ConflictUpdates(
            DictSet(d, IF updates[1][1].kind = "col" THEN ColumnInfo_str(updates[1][1])
                       ELSE StrText(updates[1][1]),
                    updates[1][2]),
            Tail(updates))

OnConflict_do_update(b, target, updates) ==
    Done([b EXCEPT !.on_conflict_target = SetTo(target),
                   !.on_conflict_action = "DO UPDATE",
                   !.on_conflict_update = SetTo(ConflictUpdates(@.items, updates))])

\* from_select ignored, not refused, by a bulk insert.
Insert_from_select_silent(b, query) ==
    IF b.kind = "bulk" THEN Done(b)
    ELSE Done([b EXCEPT !.select_query = query])

Insert_from_select(b, query) ==
    IF b.kind = "bulk" THEN Fail(b, "NotImplementedError")
    ELSE Done([b EXCEPT !.select_query = query])

\* returning(*columns), the same code in Insert, Update and Delete.
RECURSIVE Returning_named(_, _)
Returning_named(b, columns) ==
    IF columns = <<>> THEN Done(b)
    ELSE
    LET col == Head(columns) IN
    IF col.kind = "str" /\ StrText(col) = "*" THEN Done([b EXCEPT !.returning = SetTo(<<"*">>)])
    ELSE IF col.kind \notin {"str", "col"} THEN Fail(b, "TypeError")
    ELSE
    LET column == IF col.kind = "col" THEN col.field ELSE col.parts[Len(col.parts)] IN
    IF b.kind = "bulk" THEN Fail(b, "AttributeError")
    ELSE IF ~HasField(b.table, column) THEN Fail(b, "UnknownColumn")
    ELSE Returning_named([b EXCEPT !.returning.items = Append(@, column)], Tail(columns))

Statement_returning(b, columns) ==
    IF columns = <<>> THEN Done([b EXCEPT !.returning = SetTo(<<"*">>)])
    ELSE Returning_named([b EXCEPT !.returning = SetTo(<<>>)], columns)

---------------------------------------------------------------------------
(* The builder machine: one builder, the fluent calls made on it and its
   build() calls, with the arguments drawn from the sets below. *)

cAge == ColumnInfo_compare(ColumnInfo("users", "age"), ">", PyVal("18"))
cJoin == ColumnInfo_compare(ColumnInfo("posts", "user_id"), "=", ColumnInfo("users", "id"))
cCase == Expression_compare(CaseRef(1), "=", PyVal("1"))
cCount == Expression_compare(func("count", <<Expression(<<T("*")>>, <<>>)>>), ">", PyVal("5"))

cOr == ColumnCondition_or(cAge, ColumnInfo_is_null(ColumnInfo("users", "email")))

WhereArgs == <<cAge, cCase, cOr>>
OnArgs == <<cJoin>>
SelectArgs ==
    << <<ColumnInfo("posts", "title")>>,
       <<Str(<<"email">>), Str(<<"unknown">>)>>,
       <<Expression_as_alias(CaseRef(1), "grp")>>,
       <<Str(<<"id">>), Str(<<"posts", "title">>)>>,
       <<Str(<<"posts", "unknown">>)>> >>
JoinTypeArgs == <<"INNER", "LEFT", "CROSS">>
GroupByArgs == << <<Str(<<"age">>)>> >>
OrderByArgs == << <<Str(<<"posts", "title">>)>>,
                  <<ColumnInfo("posts", "title")>> >>
LimitArgs == <<-1, 10>>
OffsetArgs == <<20>>
UpdateArgs == << <<>>, <<Str(<<"email">>)>>, <<Str(<<"unknown">>)>> >>
OverrideArgs == << << <<Str(<<"age">>), PyVal("31")>> >>,
                   << <<ColumnInfo("users", "email"), CaseRef(1)>> >> >>
InsertArgs == << <<>>, <<Str(<<"email">>)>>, <<ColumnInfo("users", "age")>> >>
ConflictArgs == << ColumnInfo("users", "email"), Str(<<"email">>),
                   [kind |-> "iter", elems |-> <<Str(<<"email">>), Str(<<"id">>)>>] >>
ConflictUpdateArgs == << <<>>,
                         << <<Str(<<"email">>), cCount>>, <<Str(<<"age">>), PyVal("31")>> >> >>
ReturningArgs == << <<>>,
                    <<Str(<<"email">>), ColumnInfo("users", "id")>>,
                    <<Str(<<"id">>), Str(<<"unknown">>)>> >>
FromSelectArgs == << Select_where(Select(Post), cAge).b >>
\* The second row-source of the bulk insert.
User2 == [User EXCEPT !.row = <<"2", "'c@d.e'", "40">>]

NoCase == [i \in {1} |-> NewCaseExpression]
NoExpr == NullExpression

Outcome(op, arg, ok, err, sql, params) ==
    [op |-> op, idx |-> 1, arg |-> arg, ok |-> ok, err |-> err, sql |-> sql,
     params |-> params]

InitBuilder ==
    /\ q \in {Select(User), Update(User), Update(Tag), Delete(User),
               Insert(User), BulkInsert(<<User, User2>>)}
    /\ cases = NoCase
    /\ last = Outcome("new", <<>>, TRUE, "", <<>>, <<>>)
    /\ pre = q
    /\ calls = [where |-> FALSE, bypass |-> FALSE, swapped |-> FALSE, builds |-> 0]
    /\ recv = NoExpr /\ res = NoExpr /\ before = Ok(<<>>, <<>>)
    /\ nops = 0
    /\ registry = TABLE_REGISTRY /\ registered = TABLE_REGISTRY.registry
    /\ threads = NoThreads /\ shown = NoQuery

\* The position of a clause in a SELECT statement, by the call that fills it.
ClauseRank(op) ==
    CASE op \in {"select", "count", "distinct"} -> 1
      [] op \in {"join", "on"} -> 3
      [] op = "where" -> 4
      [] op = "group_by" -> 5
      [] op = "having" -> 6
      [] op = "order_by" -> 7
      [] op = "limit" -> 8
      [] op = "offset" -> 9
      [] OTHER -> 0

\* The clauses a Select already holds.
ClausesSet(b) ==
    {r \in 1..9 :
        \/ r = 1 /\ (b.select_columns # <<>> \/ b.distinct)
        \/ r = 3 /\ b.joins # <<>>
        \/ r = 4 /\ b.where_conditions # <<>>
        \/ r = 5 /\ b.group_by_expressions # <<>>
        \/ r = 6 /\ b.having_conditions # <<>>
        \/ r = 7 /\ b.order_by_expressions # <<>>
        \/ r = 8 /\ b.limit_value # None
        \/ r = 9 /\ b.offset_value # None}

\* The call op fills a clause that renders before one the Select already holds.
Swaps(b, op) ==
    b.kind = "select" /\ \E r \in ClausesSet(b) : ClauseRank(op) < r

\* A fluent call named op, with the idx-th of the arguments tried for it (arg
\* when a property looks at it), whose effect on the builder is out.
Fluent(op, idx, arg, out) ==
    /\ nops < MaxOps
    /\ q' = out.b
    /\ last' = [Outcome(op, arg, out.ok, out.err, <<>>, <<>>) EXCEPT !.idx = idx]
    /\ pre' = q
    /\ nops' = nops + 1
    /\ calls' = [calls EXCEPT !.where = @ \/ op = "where",
                              !.bypass = @ \/ op \in {"update_all", "delete_all"},
                              !.swapped = @ \/ Swaps(q, op)]
    /\ UNCHANGED <<cases, recv, res, before, registry, registered, threads, shown>>

Built(out) ==
    /\ calls.builds < MaxBuilds
    /\ q' = out.b
    /\ last' = Outcome("build", <<>>, out.r.ok, out.r.err, out.r.sql, out.r.params)
    /\ pre' = q
    /\ calls' = [calls EXCEPT !.builds = @ + 1]
    /\ UNCHANGED <<cases, recv, res, before, nops, registry, registered, threads, shown>>

SelectCall ==
    /\ q.kind = "select"
    /\ \E i \in DOMAIN SelectArgs :
          Fluent("select", i, SelectArgs[i], Select_select(q, SelectArgs[i]))

DistinctCall ==
    /\ q.kind = "select"
    /\ Fluent("distinct", 1, <<>>, Select_distinct(q))

JoinCall ==
    /\ \/ /\ q.kind = "select"
          /\ \E i \in DOMAIN JoinTypeArgs :
                Fluent("join", i, <<>>, Select_join(q, Post, JoinTypeArgs[i]))
       \/ /\ q.kind \in {"update", "delete"}
          /\ Fluent("join", 1, <<>>, Statement_join(q, Post))

\* on() is reachable on the Join object join() returned: for a Select, only
\* when the kind is neither NATURAL nor CROSS (join() returns the Select then).
CanOn(b, i) ==
    /\ i \in DOMAIN b.joins
    /\ b.kind = "select" => b.joins[i].join_type \notin {"NATURAL", "CROSS"}

OnCall ==
    /\ q.kind \in {"select", "update", "delete"}
    /\ \E i \in DOMAIN q.joins : \E k \in DOMAIN OnArgs :
          /\ CanOn(q, i)
          /\ Fluent("on", i, <<>>, Join_on(q, i, OnArgs[k]))

\* on() called on the Join object of a CROSS or NATURAL join: join() returned
\* the Select, and the Join object is the one it appended to the join list.
HeldJoinOnCall ==
    /\ q.kind = "select"
    /\ \E i \in DOMAIN q.joins : \E k \in DOMAIN OnArgs :
          /\ q.joins[i].join_type \in {"NATURAL", "CROSS"}
          /\ q.joins[i].on_condition = NoneObj
          /\ Fluent("held_join_on", i, <<>>, Join_on(q, i, OnArgs[k]))

WhereCall ==
    /\ q.kind \in {"select", "update", "delete"}
    /\ \E k \in DOMAIN WhereArgs :
          Fluent("where", k, <<>>, IF q.kind = "select" THEN Select_where(q, WhereArgs[k])
                                   ELSE Statement_where(q, WhereArgs[k]))

GroupByCall ==
    /\ q.kind = "select"
    /\ \E k \in DOMAIN GroupByArgs :
          Fluent("group_by", k, <<>>, Select_group_by(q, GroupByArgs[k]))

HavingCall ==
    /\ q.kind = "select"
    /\ Fluent("having", 1, <<>>, Select_having(q, cCount))

OrderByCall ==
    /\ q.kind = "select"
    /\ \E k \in DOMAIN OrderByArgs :
          Fluent("order_by", k, OrderByArgs[k], Select_order_by(q, OrderByArgs[k]))

LimitCall ==
    /\ q.kind = "select"
    /\ \E k \in DOMAIN LimitArgs : Fluent("limit", k, <<>>, Select_limit(q, LimitArgs[k]))

OffsetCall ==
    /\ q.kind = "select"
    /\ \E k \in DOMAIN OffsetArgs : Fluent("offset", k, <<>>, Select_offset(q, OffsetArgs[k]))

CountCall ==
    /\ q.kind = "select"
    /\ Fluent("count", 1, <<>>, Select_count(q))

UpdateCall ==
    /\ q.kind = "update"
    /\ \E k \in DOMAIN UpdateArgs :
          Fluent("update", k, UpdateArgs[k], Update_update(q, UpdateArgs[k]))

OverrideCall ==
    /\ q.kind = "update"
    /\ \E k \in DOMAIN OverrideArgs :
          Fluent("override", k, <<>>, Update_override(q, OverrideArgs[k]))

InsertCall ==
    /\ q.kind \in {"insert", "bulk"}
    /\ \E k \in DOMAIN InsertArgs :
          Fluent("insert", k, InsertArgs[k], Insert_insert(q, InsertArgs[k]))

InsertOverrideCall ==
    /\ q.kind \in {"insert", "bulk"}
    /\ \E k \in DOMAIN OverrideArgs :
          Fluent("override", k, <<>>, Insert_override(q, OverrideArgs[k]))

\* on_conflict(targets).do_nothing(): on_conflict itself changes nothing and
\* its error, if any, ends the chain.
ConflictDoNothingCall ==
    /\ q.kind \in {"insert", "bulk"}
    /\ \E k \in DOMAIN ConflictArgs :
          LET target == Insert_on_conflict(q, ConflictArgs[k]) IN
          Fluent("do_nothing", k, <<ConflictArgs[k]>>,
                 IF target.ok THEN OnConflict_do_nothing(q, target.target)
                 ELSE Fail(q, target.err))

ConflictDoUpdateCall ==
    /\ q.kind \in {"insert", "bulk"}
    /\ \E k \in DOMAIN ConflictArgs : \E u \in DOMAIN ConflictUpdateArgs :
          LET target == Insert_on_conflict(q, ConflictArgs[k]) IN
          Fluent("do_update", k, <<ConflictArgs[k]>>,
                 IF target.ok
                 THEN OnConflict_do_update(q, target.target, ConflictUpdateArgs[u])
                 ELSE Fail(q, target.err))

FromSelectCall ==
    /\ q.kind \in {"insert", "bulk"}
    /\ \E k \in DOMAIN FromSelectArgs :
          Fluent("from_select", k, <<>>, Insert_from_select(q, FromSelectArgs[k]))

ReturningCall ==
    /\ q.kind \in {"insert", "bulk", "update", "delete"}
    /\ \E k \in DOMAIN ReturningArgs :
          Fluent("returning", k, ReturningArgs[k], Statement_returning(q, ReturningArgs[k]))

DeleteAllCall ==
    /\ q.kind = "delete"
    /\ Fluent("delete_all", 1, <<>>, Delete_delete_all(q))

UpdateAllCall ==
    /\ q.kind = "update"
    /\ Fluent("update_all", 1, <<>>, Update_update_all(q))

\* The caller adds a WHEN branch to the CaseExpression the clauses refer to.
CaseWhenCall ==
    /\ nops < MaxOps
    /\ cases[1].when_clauses = <<>>
    /\ cases' = [cases EXCEPT ![1] = CaseExpression_when(@, cAge, PyVal("'adult'"))]
    /\ last' = Outcome("when", <<>>, TRUE, "", <<>>, <<>>)
    /\ pre' = q
    /\ nops' = nops + 1
    /\ UNCHANGED <<q, calls, recv, res, before, registry, registered, threads, shown>>

BuildCall ==
    \/ /\ q.kind = "select"
       /\ Built([r |-> Select_build(cases, q), b |-> q])
    \/ /\ q.kind = "update"
       /\ Built(Update_build(cases, q))
    \/ /\ q.kind = "delete"
       /\ Built(Delete_build(cases, q))
    \/ /\ q.kind \in {"insert", "bulk"}
       /\ Built([r |-> Insert_build(cases, q), b |-> q])

Next ==
    \/ SelectCall \/ DistinctCall \/ JoinCall \/ OnCall \/ WhereCall
    \/ GroupByCall \/ HavingCall \/ OrderByCall \/ LimitCall \/ OffsetCall
    \/ CountCall \/ UpdateCall \/ OverrideCall \/ DeleteAllCall \/ UpdateAllCall
    \/ CaseWhenCall \/ BuildCall \/ HeldJoinOnCall
    \/ InsertCall \/ InsertOverrideCall \/ ConflictDoNothingCall
    \/ ConflictDoUpdateCall \/ FromSelectCall \/ ReturningCall

Spec == InitBuilder /\ [][Next]_vars

---------------------------------------------------------------------------
(* Properties of the builder machine *)

\* The values the placeholders of a text stand for, left to right.
PlaceholderValues(sql) ==
    LET ph == SelectSeq2(sql, IsPh) IN [i \in DOMAIN ph |-> ph[i][2]]

ResultOf(l) == [ok |-> l.ok, err |-> l.err, sql |-> l.sql, params |-> l.params]

BuildOf(h, b) ==
    CASE b.kind = "select" -> [r |-> Select_build(h, b), b |-> b]
      [] b.kind = "update" -> Update_build(h, b)
      [] b.kind = "delete" -> Delete_build(h, b)
      [] b.kind \in {"insert", "bulk"} -> [r |-> Insert_build(h, b), b |-> b]

\* The SET clause of an Update builds (a Delete has none).
SetOk(b) ==
    b.kind = "update" =>
        LET model_data == Update_model_data(b) IN
        model_data # <<>> /\ SetPart(cases, model_data).ok

BuiltStatement == q.kind \in {"update", "delete"} /\ last.op = "build"

\* C1: build() is pure: it leaves the builder's clause lists unchanged, and a
\* build() that follows with no fluent call in between returns the same SQL
\* text and the same parameter list.
C1_BuildIsPure ==
    last.op = "build" =>
        /\ q = pre
        /\ BuildOf(cases, q).r = ResultOf(last)

\* C2 (as claimed): an Update or Delete that received no where() call and no
\* bypass call raises the missing-WHERE error at build() and returns no SQL,
\* whether or not joins (with or without ON conditions) are attached. Stated
\* for the statements whose SET clause builds, the ones that get to the guard.
C2_WhereGuard ==
    (BuiltStatement /\ ~calls.where /\ ~calls.bypass /\ SetOk(q)) =>
        (~last.ok /\ last.err = "MissingWhere" /\ last.sql = <<>>)

\* C2 (amended): an Update or Delete that received no where() call and no
\* bypass call, none of whose joins carries an ON condition, and whose SET
\* clause builds, raises the missing-WHERE error at build() and returns no SQL.
C2_WhereGuardAmended ==
    (BuiltStatement /\ ~calls.where /\ ~calls.bypass /\ SetOk(q)
        /\ JoinConditions(q.joins) = <<>>) =>
        (~last.ok /\ last.err = "MissingWhere" /\ last.sql = <<>>)

C2_Witness ==
    /\ BuiltStatement /\ ~calls.where /\ ~calls.bypass /\ SetOk(q)
    /\ q.joins # <<>> /\ JoinConditions(q.joins) = <<>>
    /\ last.err = "MissingWhere"

RendersTautologyWhere(l) ==
    \E i \in 1..(Len(l.sql) - 3) :
        SubSeq(l.sql, i, i + 3) = <<T("WHERE"), T("("), Ph("True"), T(")")>>

\* C3: Update and Delete each have a bypass call (update_all / delete_all)
\* that does not raise; after it, on a builder with no WHERE condition, build()
\* succeeds and renders an always-true WHERE condition.
C3_BypassBuilds ==
    /\ last.op \in {"update_all", "delete_all"} => last.ok
    /\ (BuiltStatement /\ calls.bypass /\ ~calls.where /\ q.joins = <<>> /\ SetOk(q)) =>
            (last.ok /\ RendersTautologyWhere(last))

\* C8: a build() that raises leaves the builder's clause lists as they were.
C8_FailedBuildKeepsState ==
    (last.op = "build" /\ ~last.ok) => q = pre

JoinedTables(b) ==
    {b.table.table_name} \cup {b.joins[i].table : i \in DOMAIN b.joins}

UnjoinedColumn(b, col) == col.kind = "col" /\ col.table \notin JoinedTables(b)

\* C9: a Select whose select list or order-by list holds a column of a table
\* that is neither the primary table nor joined raises at build(); select()
\* and order_by() themselves accept such a column.
C9_UnjoinedColumnRejected ==
    /\ (q.kind = "select" /\ last.op = "build"
          /\ \/ \E i \in DOMAIN q.select_columns : UnjoinedColumn(q, q.select_columns[i])
             \/ /\ "posts" \notin JoinedTables(q)
                /\ \E i \in DOMAIN q.order_by_expressions :
                      q.order_by_expressions[i] =
                          Expression_asc(Expression(<<T("posts.title")>>, <<>>)))
        => ~last.ok
    /\ (last.op = "select" /\ last.arg = <<ColumnInfo("posts", "title")>>) => last.ok

NeedsOn(join) == join.join_type \notin {"NATURAL", "CROSS"}

\* The text the joins of a Select are to render as, in attachment order.
JoinsText(h, b) ==
    Flatten([i \in DOMAIN b.joins |->
        IF NeedsOn(b.joins[i])
        THEN <<T(b.joins[i].join_type), T("JOIN"), T(b.joins[i].table), T("ON")>>
                 \o buildIn(h, b.joins[i].on_condition).sql
        ELSE <<T(b.joins[i].join_type), T("JOIN"), T(b.joins[i].table)>>])

AllJoinsConditioned(b) ==
    \A i \in DOMAIN b.joins : NeedsOn(b.joins[i]) => b.joins[i].on_condition # NoneObj

\* C10: join() on a Select never raises. build() raises the missing-join-
\* condition error when a join of a kind that needs a condition has none; when
\* every such join has one (and the rest of the statement builds), build()
\* succeeds and renders each join as '<KIND> JOIN <table> ON <condition>'
\* right after the FROM clause, in attachment order.
C10_JoinNeedsCondition ==
    /\ (q.kind = "select" /\ last.op = "join") =>
            (last.ok /\ Len(q.joins) = Len(pre.joins) + 1)
    /\ (q.kind = "select" /\ last.op = "build" /\ ~AllJoinsConditioned(q)) =>
            /\ ~last.ok
            /\ SelectPart(cases, q).ok => last.err = "MissingJoinCondition"
    /\ (q.kind = "select" /\ last.op = "build" /\ AllJoinsConditioned(q)
            /\ Select_build(cases, [q EXCEPT !.joins = <<>>]).ok) =>
            /\ last.ok
            /\ LET from == <<T("FROM"), T(q.table.table_name)>> \o JoinsText(cases, q) IN
               \E k \in DOMAIN last.sql : SubSeq(last.sql, k, k + Len(from) - 1) = from

C10_Witness ==
    /\ q.kind = "select" /\ last.op = "build" /\ last.ok
    /\ Len(q.joins) = 2
    /\ q.joins[1].join_type = "LEFT" /\ q.joins[1].on_condition # NoneObj
    /\ q.joins[2].join_type = "CROSS"

KeywordRank(tok) ==
    CASE tok = T("SELECT") -> 1
      [] tok = T("FROM") -> 2
      [] tok = T("JOIN") -> 3
      [] tok = T("WHERE") -> 4
      [] tok = T("GROUP BY") -> 5
      [] tok = T("HAVING") -> 6
      [] tok = T("ORDER BY") -> 7
      [] tok = T("LIMIT") -> 8
      [] tok = T("OFFSET") -> 9
      [] OTHER -> 0

ClausesInOrder(sql) ==
    \A i, j \in DOMAIN sql :
        (i < j /\ KeywordRank(sql[i]) > 0 /\ KeywordRank(sql[j]) > 0) =>
            \/ KeywordRank(sql[i]) < KeywordRank(sql[j])
            \/ KeywordRank(sql[i]) = 3 /\ KeywordRank(sql[j]) = 3

\* The fluent calls of a Select, each named by its method and the index of
\* its argument (for on(): the index of the join it is called on).
SelectCalls ==
    ({"select"} \X DOMAIN SelectArgs) \cup ({"distinct", "having", "count"} \X {1})
        \cup ({"join"} \X DOMAIN JoinTypeArgs) \cup ({"on"} \X {1, 2})
        \cup ({"where"} \X DOMAIN WhereArgs) \cup ({"group_by"} \X DOMAIN GroupByArgs)
        \cup ({"order_by"} \X DOMAIN OrderByArgs) \cup ({"limit"} \X DOMAIN LimitArgs)
        \cup ({"offset"} \X DOMAIN OffsetArgs)

Apply(b, c) ==
    CASE c[1] = "select" -> Select_select(b, SelectArgs[c[2]]).b
      [] c[1] = "distinct" -> Select_distinct(b).b
      [] c[1] = "count" -> Select_count(b).b
      [] c[1] = "join" -> Select_join(b, Post, JoinTypeArgs[c[2]]).b
      [] c[1] = "on" -> IF CanOn(b, c[2]) THEN Join_on(b, c[2], OnArgs[1]).b ELSE b
      [] c[1] = "where" -> Select_where(b, WhereArgs[c[2]]).b
      [] c[1] = "group_by" -> Select_group_by(b, GroupByArgs[c[2]]).b
      [] c[1] = "having" -> Select_having(b, cCount).b
      [] c[1] = "order_by" -> Select_order_by(b, OrderByArgs[c[2]]).b
      [] c[1] = "limit" -> Select_limit(b, LimitArgs[c[2]]).b
      [] c[1] = "offset" -> Select_offset(b, OffsetArgs[c[2]]).b

\* C5: a built SELECT has its clauses in the fixed order SELECT, FROM, JOINs,
\* WHERE, GROUP BY, HAVING, ORDER BY, LIMIT, OFFSET, whatever the order of the
\* fluent calls, and its parameters in the order of their placeholders; a
\* fluent call and any call after it that fills a different clause give the
\* same builder (hence the same SQL text and parameters) in either order.
C5_FixedClauseOrder ==
    /\ (q.kind = "select" /\ last.op = "build" /\ last.ok) =>
            /\ ClausesInOrder(last.sql)
            /\ last.sql[1] = T("SELECT")
            /\ PlaceholderValues(last.sql) = last.params
    /\ (q.kind = "select" /\ ClauseRank(last.op) > 0) =>
            /\ q = Apply(pre, <<last.op, last.idx>>)
            /\ \A c \in SelectCalls :
                  ClauseRank(c[1]) # ClauseRank(last.op) =>
                      Apply(Apply(pre, c), <<last.op, last.idx>>) = Apply(q, c)

C5_Witness ==
    /\ q.kind = "select" /\ last.op = "build" /\ last.ok /\ calls.swapped
    /\ q.where_conditions # <<>> /\ q.group_by_expressions # <<>>
    /\ q.limit_value # None

---------------------------------------------------------------------------
(* The expression machine: a caller holds one expression (res) and derives
   the next from it by one operation at a time; after each operation the
   result is built, alone or inside a statement.  recv is the receiver of the
   last operation and before is what recv built to when the operation began. *)

MaxDepth == 2

eAge == Expression(<<T("users.age")>>, <<>>)
eId == Expression(<<T("users.id")>>, <<>>)
eAdult == Expression_compare(eAge, ">", PyVal("18"))

Leaves ==
    { eAge, LiteralExpression("5"), LiteralExpression(None), CaseRef(1),
      ColumnInfo("users", "age"), func("count", <<Expression(<<T("*")>>, <<>>)>>),
      eAdult }

Others == <<PyVal("1"), PyVal(None), eId>>
Lists == <<PyList(<<>>), PyList(<<"1", "2">>), Expression(<<T("(SELECT 1)")>>, <<>>)>>
ConditionArgs == <<eAdult, cAge>>
WhenArgs == << <<eAdult, PyVal("'adult'")>>,
              <<Expression_compare(eId, "=", PyVal("1")), PyVal("'one'")>> >>

InitExpr ==
    /\ res \in Leaves
    /\ recv = NoExpr
    /\ before = Ok(<<>>, <<>>)
    /\ cases = NoCase
    /\ last = Outcome("new", <<>>, TRUE, "", <<>>, <<>>)
    /\ q = Select(User)
    /\ pre = Select(User)
    /\ calls = [where |-> FALSE, bypass |-> FALSE, swapped |-> FALSE, builds |-> 0]
    /\ nops = 0
    /\ registry = TABLE_REGISTRY /\ registered = TABLE_REGISTRY.registry
    /\ threads = NoThreads /\ shown = NoQuery

\* The operation op with argument arg was called on res; it returned result
\* (or raised) and left the CaseExpression objects as h.  The result is built.
Derive(op, arg, result, h) ==
    /\ nops < MaxDepth
    /\ recv' = res
    /\ before' = buildIn(cases, res)
    /\ cases' = h
    /\ res' = IF result.kind = "failed" THEN res ELSE result
    /\ last' = IF result.kind = "failed"
               THEN Outcome(op, arg, FALSE, result.err, <<>>, <<>>)
               ELSE LET r == buildIn(h, result) IN Outcome(op, arg, r.ok, r.err, r.sql, r.params)
    /\ nops' = nops + 1
    /\ q' = Select(User)
    /\ UNCHANGED <<pre, calls, registry, registered, threads, shown>>

ArithOp ==
    /\ res.kind \in ExpressionKinds
    /\ \E i \in DOMAIN Others :
          \/ Derive("+", <<Others[i]>>, Expression_arith(res, "+", Others[i]), cases)
          \/ Derive("r-", <<Others[i]>>, Expression_rarith(res, "-", Others[i]), cases)

NegOp ==
    /\ res.kind \in ExpressionKinds
    /\ Derive("neg", <<>>, Expression_neg(res), cases)

CompareOp ==
    \E i \in DOMAIN Others :
        \/ /\ res.kind \in ExpressionKinds
           /\ \/ Derive("=", <<Others[i]>>, Expression_compare(res, "=", Others[i]), cases)
              \/ Derive("like", <<Others[i]>>, Expression_like(res, Others[i]), cases)
        \/ /\ res.kind = "col"
           /\ Derive("=", <<Others[i]>>, ColumnInfo_compare(res, "=", Others[i]), cases)

InOp ==
    \E i \in DOMAIN Lists :
        \/ /\ res.kind \in ExpressionKinds
           /\ Derive("in_", <<Lists[i]>>, Expression_in_(res, Lists[i]), cases)
        \/ /\ res.kind = "col"
           /\ Derive("in_", <<Lists[i]>>, ColumnInfo_in_(res, Lists[i]), cases)

NotInOp ==
    \E i \in DOMAIN Lists :
        \/ /\ res.kind \in ExpressionKinds
           /\ Derive("not_in_", <<Lists[i]>>, Expression_not_in_(res, Lists[i]), cases)
        \/ /\ res.kind = "col"
           /\ Derive("not_in_", <<Lists[i]>>, ColumnInfo_not_in_(res, Lists[i]), cases)

IsNullOp ==
    \/ /\ res.kind \in ExpressionKinds
       /\ \/ Derive("is_null", <<>>, Expression_is_null(res), cases)
          \/ Derive("is_not_null", <<>>, Expression_is_not_null(res), cases)
    \/ /\ res.kind = "col"
       /\ Derive("is_null", <<>>, ColumnInfo_is_null(res), cases)

BetweenOp ==
    /\ res.kind \in ExpressionKinds
    /\ \E i \in DOMAIN Others :
          \/ Derive("between", <<PyVal("1"), Others[i]>>,
                    Expression_between(cases, res, PyVal("1"), Others[i]), cases)
          \/ Derive("not_between", <<PyVal("1"), Others[i]>>,
                    Expression_not_between(cases, res, PyVal("1"), Others[i]), cases)

AndOrOp ==
    \E i \in DOMAIN ConditionArgs :
        \/ /\ res.kind = "cond"
           /\ \/ Derive("&", <<ConditionArgs[i]>>, Condition_and(res, ConditionArgs[i]), cases)
              \/ Derive("|", <<ConditionArgs[i]>>, Condition_or(res, ConditionArgs[i]), cases)
        \/ /\ res.kind = "tree"
           /\ \/ Derive("&", <<ConditionArgs[i]>>,
                         ConditionTree_and(res, ConditionArgs[i]), cases)
              \/ Derive("|", <<ConditionArgs[i]>>,
                         ConditionTree_or(res, ConditionArgs[i]), cases)
        \/ /\ res.kind = "not"
           /\ \/ Derive("&", <<ConditionArgs[i]>>,
                         NotCondition_and(res, ConditionArgs[i]), cases)
              \/ Derive("|", <<ConditionArgs[i]>>,
                         NotCondition_or(res, ConditionArgs[i]), cases)
        \/ /\ res.kind \in ColumnConditionKinds
           /\ \/ Derive("&", <<ConditionArgs[i]>>,
                         ColumnCondition_and(res, ConditionArgs[i]), cases)
              \/ Derive("|", <<ConditionArgs[i]>>,
                         ColumnCondition_or(res, ConditionArgs[i]), cases)

InvertOp ==
    \/ /\ res.kind = "cond"
       /\ Derive("~", <<>>, Condition_invert(res), cases)
    \/ /\ res.kind = "tree"
       /\ Derive("~", <<>>, ConditionTree_invert(res), cases)
    \/ /\ res.kind = "not"
       /\ Derive("~", <<>>, NotCondition_invert(res), cases)
    \/ /\ res.kind \in ColumnConditionKinds
       /\ Derive("~", <<>>, ColumnCondition_invert(res), cases)

AliasOp ==
    /\ res.kind \in ExpressionKinds
    /\ Derive("as_alias", <<>>, Expression_as_alias(res, "x"), cases)

OrderOp ==
    /\ res.kind \in ExpressionKinds
    /\ \/ Derive("asc", <<>>, Expression_asc(res), cases)
       \/ Derive("desc", <<>>, Expression_desc(res), cases)

FuncOp ==
    /\ res.kind \in ExpressionKinds
    /\ Derive("func", <<>>, func("sum", <<res>>), cases)

FunctionOp ==
    /\ res.kind = "fn"
    /\ \/ Derive("with_distinct", <<>>, FunctionExpression_with_distinct(res), cases)
       \/ Derive("filter", <<eAdult>>, FunctionExpression_filter(res, eAdult), cases)
       \/ Derive("over", <<>>, FunctionExpression_over(res, "PARTITION BY users.id"), cases)

\* when() and else_() act on the CaseExpression object and return it.
CaseOp ==
    /\ res.kind = "case"
    /\ \/ \E k \in DOMAIN WhenArgs :
             Derive("when", WhenArgs[k], res,
                    [cases EXCEPT ![res.id] =
                        CaseExpression_when(@, WhenArgs[k][1], WhenArgs[k][2])])
       \/ Derive("else_", <<PyVal("'minor'")>>, res,
                 [cases EXCEPT ![res.id] = CaseExpression_else_(@, PyVal("'minor'"))])

\* The statements the caller puts res into: a condition goes to where() of a
\* Select, an Update or a Delete; any other expression to select() of a Select
\* or, as the value of a column, to override() of an Update.
StatementsOf(e) ==
    IF e.kind \in {"cond", "tree", "not"} \cup ColumnConditionKinds
    THEN { Select_where(Select(User), e).b,
           Statement_where(Update(User), e).b,
           Statement_where(Delete(User), e).b }
    ELSE { Select_select(Select(User), <<e>>).b,
           Statement_where(Update_override(Update(User), << <<Str(<<"age">>), e>> >>).b,
                           cAge).b }

InStatement ==
    /\ last.op # "statement"
    /\ \E b \in StatementsOf(res) :
          /\ q' = b
          /\ LET r == BuildOf(cases, b).r IN
                last' = Outcome("statement", <<>>, r.ok, r.err, r.sql, r.params)
    /\ UNCHANGED <<cases, pre, calls, recv, res, before, nops, registry, registered, threads, shown>>

NextExpr ==
    \/ ArithOp \/ NegOp \/ CompareOp \/ InOp \/ NotInOp \/ IsNullOp \/ BetweenOp
    \/ AndOrOp \/ InvertOp \/ AliasOp \/ OrderOp \/ FuncOp \/ FunctionOp \/ CaseOp
    \/ InStatement

SpecExpr == InitExpr /\ [][NextExpr]_vars

---------------------------------------------------------------------------
(* Properties of the expression machine *)

\* C4: whenever an expression, or a statement holding it, builds, the
\* parameter list is the list of the values of the placeholders of the SQL
\* text read left to right; so there are as many placeholders as parameters.
C4_ParamsMatchPlaceholders ==
    last.ok =>
        /\ last.params = PlaceholderValues(last.sql)
        /\ Len(last.params) = Len(SelectSeq2(Text(last.sql), LAMBDA t : t = "%s"))

C4_Witness ==
    /\ last.op = "statement" /\ last.ok /\ q.kind = "update"
    /\ Len(last.params) >= 4
    /\ res.kind = "tree"

EmptyList == PyList(<<>>)

RendersEmptyIn(sql) ==
    \E i \in 1..(Len(sql) - 2) :
        /\ sql[i] \in {T("IN"), T("NOT IN")}
        /\ sql[i + 1] = T("(")
        /\ sql[i + 2] = T(")")

\* C6: in_ of an empty list builds the statically false predicate 1 = 0 with
\* no parameter, not_in_ of an empty list the statically true predicate 1 = 1
\* with no parameter, on a column and on an expression alike; no built text
\* holds 'IN ()'.
C6_EmptyMembership ==
    /\ (last.op = "in_" /\ last.arg = <<EmptyList>>) =>
            (last.ok /\ Text(last.sql) = <<"1", "=", "0">> /\ last.params = <<>>)
    /\ (last.op = "not_in_" /\ last.arg = <<EmptyList>>) =>
            (last.ok /\ Text(last.sql) = <<"1", "=", "1">> /\ last.params = <<>>)
    /\ last.ok => ~RendersEmptyIn(last.sql)

\* C7: an operation that derives an expression from a receiver leaves the
\* receiver unchanged: the receiver builds to the same result after the
\* operation as before it.
C7_ReceiverUnchanged ==
    last.op \notin {"new", "statement"} => buildIn(cases, recv) = before

---------------------------------------------------------------------------
(* Properties of the builder machine, continued *)

\* C11: a Select with a CROSS or NATURAL join that has a condition attached
\* raises the illegal-join-condition error at build(); it does not render the
\* join without the condition.
C11_IllegalJoinCondition ==
    (q.kind = "select" /\ last.op = "build"
        /\ \E i \in DOMAIN q.joins :
              ~NeedsOn(q.joins[i]) /\ q.joins[i].on_condition # NoneObj) =>
        (~last.ok /\ last.err = "IllegalJoinCondition")

Min3(a, b, c) ==
    IF a <= b /\ a <= c THEN a ELSE IF b <= c THEN b ELSE c

IsPrefix(p, s) == Len(p) <= Len(s) /\ SubSeq(s, 1, Len(p)) = p
IsSuffix(p, s) == Len(p) <= Len(s) /\ SubSeq(s, Len(s) - Len(p) + 1, Len(s)) = p

\* The position of the first token tok of a text, or one past its end.
FirstOf(sql, tok) ==
    IF \E i \in DOMAIN sql : sql[i] = tok
    THEN CHOOSE i \in DOMAIN sql : sql[i] = tok /\ \A j \in 1..(i - 1) : sql[j] # tok
    ELSE Len(sql) + 1

\* The columns between the first pair of parentheses of an INSERT.
ListedColumns(sql) ==
    {sql[j][1] : j \in (FirstOf(sql, T("(")) + 1)..(FirstOf(sql, T(")")) - 1)} \ {","}

\* The columns assigned in the SET clause of an UPDATE.
SetColumns(sql) ==
    LET stop == Min3(FirstOf(sql, T("FROM")), FirstOf(sql, T("WHERE")),
                     FirstOf(sql, T("RETURNING")))
    IN  {sql[j][1] : j \in {i \in 3..(stop - 2) : sql[i + 1] = T("=")}}

\* The columns of the builder's table that the explicit subset names.
NamedColumns(b) ==
    {f \in Range(b.table.fields) :
        ColumnInfo_str(pgantics_field(b.table, f)) \in Range(b.columns.items)}

\* C12: an Insert without explicit columns lists every column of the table;
\* after insert(c1..cn) with existing columns build() succeeds and lists
\* exactly the named columns plus the overridden ones, with one value each.
C12_InsertColumns ==
    (q.kind = "insert" /\ last.op = "build" /\ q.on_conflict_action # "DO UPDATE"
        /\ q.select_query = NoneObj) =>
        LET expected == IF q.columns.items = <<>> THEN Range(q.table.fields)
                        ELSE NamedColumns(q) \union Keys(q.overrides)
        IN  expected # {} =>
                /\ last.ok
                /\ ListedColumns(last.sql) = expected
                /\ Len(last.params) = Cardinality(expected)

\* C13: an Update without explicit columns sets every column except the
\* primary key; after update(c1..cn) with existing columns the SET clause
\* holds exactly the named columns (plus the overridden ones), the primary
\* key among them only when named.
C13_UpdateSetColumns ==
    (q.kind = "update" /\ last.op = "build") =>
        LET expected == (IF q.columns.items = <<>>
                         THEN Range(q.table.fields) \ q.table.pk
                         ELSE NamedColumns(q)) \union Keys(q.overrides)
        IN  expected # {} =>
                /\ last.err # "EmptySet"
                /\ last.ok => SetColumns(last.sql) = expected

\* The number of parenthesised groups after the VALUES keyword.
ValueGroups(sql) ==
    Cardinality({i \in DOMAIN sql : sql[i] = T("(") /\ i > FirstOf(sql, T("VALUES"))})

\* C14: a bulk insert over n row-sources builds, renders n VALUES groups and
\* passes the rows' values in iteration order; a single-row insert renders
\* one VALUES tuple with the row's values.
C14_BulkValues ==
    /\ (q.kind = "bulk" /\ last.op = "build" /\ q.columns = Unset
            /\ ~q.on_conflict_target.set) =>
            /\ last.ok
            /\ ValueGroups(last.sql) = Len(q.tables)
            /\ last.params = Flatten([k \in DOMAIN q.tables |-> q.tables[k].row])
    /\ (q.kind = "insert" /\ last.op = "build" /\ q.columns = Unset
            /\ q.overrides = <<>> /\ q.select_query = NoneObj
            /\ ~q.on_conflict_target.set) =>
            /\ last.ok
            /\ ValueGroups(last.sql) = 1
            /\ last.params = q.table.row

\* The text holds part as a run of consecutive tokens.
Contains(sql, part) ==
    \E i \in 0..(Len(sql) - Len(part)) : SubSeq(sql, i + 1, i + Len(part)) = part

TargetNames(targets) ==
    CASE targets.kind = "col" -> <<targets.field>>
      [] targets.kind = "str" -> <<targets.parts[Len(targets.parts)]>>
      [] OTHER -> [i \in DOMAIN targets.elems |->
                      IF targets.elems[i].kind = "col" THEN targets.elems[i].field
                      ELSE targets.elems[i].parts[Len(targets.elems[i].parts)]]

\* ON CONFLICT (names) DO UPDATE SET k = v, ..: a plain value as a placeholder,
\* an expression as its own text.
ConflictClause(names, updates) ==
    <<T("ON CONFLICT"), T("(")>>
        \o Join(<<T(",")>>, [i \in DOMAIN names |-> <<T(names[i])>>])
        \o <<T(")"), T("DO UPDATE SET")>>
        \o Join(<<T(",")>>,
                [i \in DOMAIN updates |->
                    <<T(updates[i][1]), T("=")>>
                        \o (IF updates[i][2].kind \in BaseExpressionKinds
                            THEN buildIn(cases, updates[i][2]).sql
                            ELSE <<Ph(ParamOf(updates[i][2]))>>)])

ConflictParams(updates) ==
    Flatten([i \in DOMAIN updates |->
                IF updates[i][2].kind \in BaseExpressionKinds
                THEN buildIn(cases, updates[i][2]).params
                ELSE <<ParamOf(updates[i][2])>>])

BuiltConflictUpdate ==
    /\ q.kind = "insert" /\ last.op = "build" /\ last.ok
    /\ q.on_conflict_action = "DO UPDATE"

\* C16 as the specification states it: the conflict target is rendered
\* table-qualified, ON CONFLICT (users.email) DO UPDATE SET ..
C16_ConflictUpdate ==
    BuiltConflictUpdate =>
        /\ Contains(last.sql,
                    ConflictClause([i \in DOMAIN q.on_conflict_target.items |->
                                       q.table.table_name \o "."
                                           \o q.on_conflict_target.items[i]],
                                   q.on_conflict_update.items))
        /\ IsSuffix(ConflictParams(q.on_conflict_update.items), last.params)

\* C16, amended: on_conflict(t).do_update(m) stores the bare names of the
\* target columns, and build() renders ON CONFLICT (email) DO UPDATE SET k = %s
\* with the unqualified target; a plain SET value is a placeholder whose value
\* is a trailing parameter, an expression SET value is rendered inline and its
\* parameters follow those of VALUES.
C16_ConflictUpdateAmended ==
    /\ (q.kind = "insert" /\ last.op = "do_update" /\ last.ok) =>
            q.on_conflict_target.items = TargetNames(last.arg[1])
    /\ BuiltConflictUpdate =>
            /\ Contains(last.sql,
                        ConflictClause(q.on_conflict_target.items,
                                       q.on_conflict_update.items))
            /\ IsSuffix(ConflictParams(q.on_conflict_update.items), last.params)
            /\ PlaceholderValues(last.sql) = last.params

C16_Witness ==
    /\ BuiltConflictUpdate
    /\ q.on_conflict_target.items = <<"email">>
    /\ Contains(last.sql, <<T("ON CONFLICT"), T("("), T("email"), T(")"),
                            T("DO UPDATE SET")>>)
    /\ last.params[Len(last.params)] = "31"

\* C17: do_update with an empty mapping does not raise at the call; build()
\* of an Insert whose DO UPDATE has no SET entry raises, build() of an Update
\* with no SET assignment raises, and no built text has an empty SET.
C17_EmptySetRaisesAtBuild ==
    /\ (q.kind = "insert" /\ last.op = "do_update"
            /\ Insert_on_conflict(pre, last.arg[1]).ok) => last.ok
    /\ (q.kind = "insert" /\ last.op = "build" /\ q.on_conflict_action = "DO UPDATE"
            /\ q.on_conflict_update.items = <<>>) =>
            /\ ~last.ok
            /\ (Insert_columns(q) # <<>> /\ q.select_query = NoneObj) =>
                    last.err = "EmptySet"
    /\ (q.kind = "update" /\ last.op = "build" /\ Update_model_data(q) = <<>>) =>
            (~last.ok /\ last.err = "EmptySet")
    /\ (last.op = "build" /\ last.ok) =>
            \A i \in DOMAIN last.sql :
                last.sql[i] \in {T("SET"), T("DO UPDATE SET")} =>
                    (i + 2 <= Len(last.sql) /\ last.sql[i + 2] = T("="))

C17_Witness ==
    /\ q.kind = "insert" /\ last.op = "build"
    /\ q.on_conflict_action = "DO UPDATE" /\ q.on_conflict_update = SetTo(<<>>)
    /\ pre = q /\ last.err = "EmptySet"

\* The bare name of a column argument.
ColumnName(col) == IF col.kind = "col" THEN col.field ELSE col.parts[Len(col.parts)]

\* C18: on Insert, Update and Delete alike, returning() without arguments
\* makes build() end with RETURNING *; with columns it raises at the call when
\* one of them is not a column of the table, else build() ends with RETURNING
\* and the named columns in call order; without any returning() call the
\* statement has no RETURNING clause.
C18_Returning ==
    /\ (q.kind \in {"insert", "update", "delete"} /\ last.op = "returning") =>
            IF last.arg = <<>> THEN last.ok /\ q.returning.items = <<"*">>
            ELSE IF \E i \in DOMAIN last.arg : ~HasField(q.table, ColumnName(last.arg[i]))
            THEN ~last.ok
            ELSE last.ok
                 /\ q.returning.items = [i \in DOMAIN last.arg |-> ColumnName(last.arg[i])]
    /\ (q.kind \in {"insert", "update", "delete"} /\ last.op = "build" /\ last.ok) =>
            /\ q.returning = Unset => T("RETURNING") \notin Range(last.sql)
            /\ q.returning.items = <<"*">> =>
                    IsSuffix(<<T("RETURNING"), T("*")>>, last.sql)
            /\ (q.returning.items # <<>> /\ "*" \notin Range(q.returning.items)) =>
                    IsSuffix(<<T("RETURNING")>>
                                \o Join(<<T(",")>>, [i \in DOMAIN q.returning.items |->
                                                        <<T(q.returning.items[i])>>]),
                             last.sql)

C18_Witness ==
    /\ q.kind = "delete" /\ last.op = "build" /\ last.ok
    /\ q.returning.items = <<"email", "id">>
    /\ IsSuffix(<<T("RETURNING"), T("email"), T(","), T("id")>>, last.sql)

\* The WHERE clause of a built text, up to RETURNING.
WhereText(sql) ==
    SubSeq(sql, FirstOf(sql, T("WHERE")), FirstOf(sql, T("RETURNING")) - 1)

---------------------------------------------------------------------------
(* The registry machine: register and get calls, in any order, on a table  *)
(* registry or on a plain registry.                                        *)

\* The classes passed to register(): two distinct classes named User, and
\* two classes whose table is users.
ClassArgs ==
    << [name |-> "User", table_name |-> "users", id |-> 1],
       [name |-> "User", table_name |-> "people", id |-> 2],
       [name |-> "Account", table_name |-> "users", id |-> 3],
       [name |-> "people", table_name |-> "tags", id |-> 4] >>
NameArgs == <<"User", "Account", "users", "people", "Missing">>

InitRegistry ==
    /\ registry \in {NewRegister("Table"), NewRegister("CustomType")}
    /\ registered = <<>>
    /\ threads = NoThreads /\ shown = NoQuery
    /\ pre = registry
    /\ last = Outcome("new", <<>>, TRUE, "", <<>>, <<>>)
    /\ res = NoneObj /\ recv = NoExpr /\ before = Ok(<<>>, <<>>)
    /\ q = Select(User) /\ cases = NoCase
    /\ calls = [where |-> FALSE, bypass |-> FALSE, swapped |-> FALSE, builds |-> 0]
    /\ nops = 0

RegisterCall ==
    \E k \in DOMAIN ClassArgs :
        LET cls == ClassArgs[k]
            out == Register_register(registry, cls)
        IN  /\ registry' = out.r
            /\ registered' = IF cls.name \in Keys(registered) THEN registered
                             ELSE Append(registered, <<cls.name, cls>>)
            /\ pre' = registry
            /\ last' = [Outcome("register", <<cls>>, out.ok, out.err, <<>>, <<>>)
                            EXCEPT !.idx = k]
            /\ res' = NoneObj
            /\ UNCHANGED <<q, cases, calls, recv, before, nops, threads, shown>>

GetCall ==
    \E k \in DOMAIN NameArgs :
        LET out == Registry_get(registry, NameArgs[k]) IN
        /\ last' = [Outcome("get", <<Str(<<NameArgs[k]>>)>>, out.ok, out.err, <<>>, <<>>)
                        EXCEPT !.idx = k]
        /\ res' = out.cls
        /\ pre' = registry
        /\ UNCHANGED <<q, cases, calls, recv, before, nops, registry, registered, threads, shown>>

NextRegistry == RegisterCall \/ GetCall

SpecRegistry == InitRegistry /\ [][NextRegistry]_vars

\* The classes with table table_name, in the order of their first registration.
RegisteredFor(table_name) ==
    SelectSeq2(registered, LAMBDA item : item[2].table_name = table_name)

RegisterRaises ==
    (last.op = "register" /\ last.arg[1].name \in Keys(pre.registry)) =>
        (~last.ok /\ last.err = "AlreadyRegisteredError" /\ registry = pre)

GetReturnsFirst ==
    (last.op = "get" /\ last.arg[1].parts[1] \in Keys(registered)) =>
        (last.ok /\ res = DictGet(registered, last.arg[1].parts[1]))

\* C20 as the specification states it: every get of a name that was never
\* registered raises the not-registered error.
C20_Registry ==
    /\ RegisterRaises
    /\ GetReturnsFirst
    /\ (last.op = "get" /\ last.arg[1].parts[1] \notin Keys(registered)) =>
            (~last.ok /\ last.err = "NotRegisteredError")

\* C20, amended: register of a name already registered raises the
\* already-registered error and leaves the mapping unchanged; get of a
\* registered name returns the class first registered under it; get of any
\* other name raises the not-registered error, except that the table registry
\* then returns the first registered class whose table has that name.
C20_RegistryAmended ==
    /\ RegisterRaises
    /\ GetReturnsFirst
    /\ (last.op = "get" /\ last.arg[1].parts[1] \notin Keys(registered)) =>
            IF registry.registry_type = "Table"
                /\ RegisteredFor(last.arg[1].parts[1]) # <<>>
            THEN last.ok /\ res = RegisteredFor(last.arg[1].parts[1])[1][2]
            ELSE ~last.ok /\ last.err = "NotRegisteredError"

C20_Witness ==
    /\ last.op = "get" /\ last.arg = <<Str(<<"users">>)>>
    /\ registry.registry_type = "Table"
    /\ "users" \notin Keys(registered)
    /\ Len(RegisteredFor("users")) = 2
    /\ last.ok /\ res.name = "Account"

---------------------------------------------------------------------------
(* Properties of the builder machine, continued *)

Min5(a, b, c, d, e) == Min3(Min3(a, b, c), d, e)

\* The WHERE clause of a built SELECT: from WHERE to the next clause keyword.
SelectWhereText(sql) ==
    SubSeq(sql, FirstOf(sql, T("WHERE")),
           Min5(FirstOf(sql, T("GROUP BY")), FirstOf(sql, T("HAVING")),
                FirstOf(sql, T("ORDER BY")), FirstOf(sql, T("LIMIT")),
                FirstOf(sql, T("OFFSET"))) - 1)

\* C25: where() appends its condition; after k >= 1 calls build() renders
\* WHERE (c1) AND .. AND (ck) in call order, every condition in parentheses of
\* its own whatever its operator, with the conditions' parameters in call
\* order; without a where() call there is no WHERE clause.
C25_WhereConjunction ==
    /\ (q.kind = "select" /\ last.op = "where") =>
            /\ last.ok
            /\ q.where_conditions = Append(pre.where_conditions, WhereArgs[last.idx])
    /\ (q.kind = "select" /\ last.op = "build" /\ last.ok) =>
            LET Rs == BuildEach(cases, q.where_conditions)
                wparams == Flatten([i \in DOMAIN Rs |-> Rs[i].params])
                n == Len(PlaceholderValues(
                            SubSeq(last.sql, 1, FirstOf(last.sql, T("WHERE")) - 1)))
            IN  IF q.where_conditions = <<>> THEN T("WHERE") \notin Range(last.sql)
                ELSE /\ SelectWhereText(last.sql) =
                            <<T("WHERE")>>
                                \o Join(<<T("AND")>>,
                                        [i \in DOMAIN Rs |->
                                            <<T("(")>> \o Rs[i].sql \o <<T(")")>>])
                     /\ SubSeq(last.params, n + 1, n + Len(wparams)) = wparams

C25_Witness ==
    /\ q.kind = "select" /\ last.op = "build" /\ last.ok
    /\ q.where_conditions = <<cOr, cAge>>
    /\ Text(last.sql) = <<"SELECT", "*", "FROM", "users", "WHERE",
                          "(", "(", "users.age", ">", "%s", ")", "OR",
                               "(", "users.email", "IS NULL", ")", ")",
                          "AND", "(", "users.age", ">", "%s", ")">>
    /\ last.params = <<"18", "18">>

\* The table a string column reference resolves to on builder b.
ResolvedTable(b, col) ==
    IF Len(col.parts) > 1 THEN TableRegister_get(col.parts[1]) ELSE b.table

\* A string reference whose table or field is not known.
UnknownReference(b, col) ==
    /\ col.kind = "str"
    /\ \/ Len(col.parts) > 1 /\ ~IsRegistered(col.parts[1])
       \/ ~HasField(ResolvedTable(b, col), col.parts[Len(col.parts)])

\* The select list of a built SELECT: between SELECT [DISTINCT] and FROM.
SelectList(sql) ==
    SubSeq(sql, IF sql[2] = T("DISTINCT") THEN 3 ELSE 2, FirstOf(sql, T("FROM")) - 1)

\* C26: select() with a string reference, bare or qualified, to a field the
\* resolved table does not have raises at the call; otherwise it appends the
\* columns; a Select with no selected column builds SELECT *, any other
\* renders its columns table-qualified, in call order.
C26_SelectColumns ==
    /\ (q.kind = "select" /\ last.op = "select") =>
            IF \E i \in DOMAIN last.arg : UnknownReference(pre, last.arg[i])
            THEN ~last.ok
            ELSE /\ last.ok
                 /\ q.select_columns =
                        pre.select_columns \o
                        [i \in DOMAIN last.arg |->
                            IF last.arg[i].kind = "str"
                            THEN ColumnInfo(ResolvedTable(pre, last.arg[i]).table_name,
                                            last.arg[i].parts[Len(last.arg[i].parts)])
                            ELSE last.arg[i]]
    /\ (q.kind = "select" /\ last.op = "build" /\ last.ok) =>
            SelectList(last.sql) =
                IF q.select_columns = <<>> THEN <<T("*")>>
                ELSE Join(<<T(",")>>,
                          [i \in DOMAIN q.select_columns |->
                              IF q.select_columns[i].kind = "col"
                              THEN <<T(q.select_columns[i].table \o "."
                                          \o q.select_columns[i].field)>>
                              ELSE buildIn(cases, q.select_columns[i]).sql])

C26_Witness ==
    /\ q.kind = "select" /\ last.op = "build" /\ last.ok
    /\ pre.select_columns = <<ColumnInfo("users", "id"), ColumnInfo("posts", "title")>>
    /\ IsPrefix(<<T("SELECT"), T("users.id"), T(","), T("posts.title"), T("FROM")>>,
                last.sql)

\* C27: build() of an Update or Delete raises when one of its joins never got
\* a condition through on(); it does not list the table after FROM / USING
\* without a join condition.
C27_StatementJoinFinalized ==
    (BuiltStatement
        /\ \E i \in DOMAIN pre.joins : pre.joins[i].on_condition = NoneObj) =>
        ~last.ok

\* C28: on_conflict takes a column name, a column object or an iterable of
\* these; each form succeeds for existing columns and yields the named
\* columns as the conflict target, one column for 'email' as for User.email.
C28_ConflictTargetForms ==
    (q.kind = "insert" /\ last.op \in {"do_nothing", "do_update"}) =>
        /\ last.ok
        /\ q.on_conflict_target.items = TargetNames(last.arg[1])

\* C29: a fluent call that raises the unknown-column error leaves the builder
\* as it was before the call.
C29_FailedCallKeepsBuilder ==
    (~last.ok /\ last.err = "UnknownColumn") =>
        /\ last.op = "select" => q.select_columns = pre.select_columns
        /\ last.op = "returning" => q.returning.items = pre.returning.items
        /\ last.op \in {"insert", "update"} => q.columns.items = pre.columns.items

---------------------------------------------------------------------------
(* Properties of the registry machine, continued *)

\* C30: in the table registry a name resolves to at most one class: no two
\* registered classes have the same Meta.table_name, a class whose table name
\* is already taken by a class of another name is rejected by register(), and
\* no class name is the table name of another registered class.
C30_TableNameUnambiguous ==
    registry.registry_type = "Table" =>
        /\ \A i, j \in DOMAIN registry.registry :
              (registry.registry[i][2].table_name = registry.registry[j][2].table_name
                  \/ registry.registry[i][1] = registry.registry[j][2].table_name)
                  => i = j
        /\ (last.op = "register"
              /\ \E i \in DOMAIN pre.registry :
                    /\ pre.registry[i][2].table_name = last.arg[1].table_name
                    /\ pre.registry[i][1] # last.arg[1].name) =>
              ~last.ok

---------------------------------------------------------------------------
(* Properties of the expression machine, continued *)

IsCondition(e) == e.kind \in {"cond", "tree", "not"} \union ColumnConditionKinds

\* C23: for conditions a and b, column conditions included, a & b builds
\* (a) AND (b) with a's parameters then b's, a | b the same with OR, and ~a
\* builds NOT (a) with a's parameters, at every nesting depth.
C23_ConditionAlgebra ==
    /\ (last.op \in {"&", "|"} /\ IsCondition(recv) /\ before.ok
            /\ buildIn(cases, last.arg[1]).ok) =>
            LET b == buildIn(cases, last.arg[1]) IN
            /\ last.ok
            /\ last.sql = <<T("(")>> \o before.sql
                            \o <<T(")"), T(IF last.op = "&" THEN "AND" ELSE "OR"), T("(")>>
                            \o b.sql \o <<T(")")>>
            /\ last.params = before.params \o b.params
    /\ (last.op = "~" /\ IsCondition(recv) /\ before.ok) =>
            /\ last.ok
            /\ last.sql = <<T("NOT"), T("(")>> \o before.sql \o <<T(")")>>
            /\ last.params = before.params

\* The text and the parameters of the branches of a CASE, in declaration order.
BranchesText(h, c) ==
    Flatten([i \in DOMAIN c.when_clauses |->
        <<T("WHEN")>> \o buildIn(h, c.when_clauses[i][1]).sql
            \o <<T("THEN")>> \o buildIn(h, c.when_clauses[i][2]).sql])
BranchesParams(h, c) ==
    Flatten([i \in DOMAIN c.when_clauses |->
        buildIn(h, c.when_clauses[i][1]).params \o buildIn(h, c.when_clauses[i][2]).params])

\* C24: a CaseExpression without a WHEN branch raises the empty-CASE error
\* at build(), with or without an ELSE; with branches it renders
\* CASE WHEN c1 THEN v1 .. [ELSE e] END in declaration order, its parameters
\* being, branch by branch, the condition's then the value's, then the ELSE's.
C24_CaseBuild ==
    (res.kind = "case" /\ last.op \in {"when", "else_"}) =>
        LET c == cases[res.id] IN
        IF c.when_clauses = <<>> THEN ~last.ok /\ last.err = "EmptyCase"
        ELSE /\ last.ok
             /\ last.sql = <<T("CASE")>> \o BranchesText(cases, c)
                              \o (IF c.else_clause = NoneObj THEN <<>>
                                  ELSE <<T("ELSE")>> \o buildIn(cases, c.else_clause).sql)
                              \o <<T("END")>>
             /\ last.params = BranchesParams(cases, c)
                                 \o (IF c.else_clause = NoneObj THEN <<>>
                                     ELSE buildIn(cases, c.else_clause).params)

C24_Witness ==
    /\ res.kind = "case" /\ last.op = "when" /\ last.ok
    /\ Len(cases[res.id].when_clauses) = 2
    /\ last.params = <<"1", "'one'", "18", "'adult'">>
    /\ Text(last.sql) = <<"CASE", "WHEN", "users.id", "=", "%s", "THEN", "%s",
                          "WHEN", "users.age", ">", "%s", "THEN", "%s", "END">>

---------------------------------------------------------------------------
(* The thread machine: NThreads threads declare a table class each, which  *)
(* calls register() (entities/table.py, Table.__init_subclass__).  The     *)
(* method takes no lock: a thread can be preempted between the membership  *)
(* test and the store, so the two are separate steps.                      *)

NThreads == 2

\* registry.py:15, cls.__name__ in self._registry
Register_contains(r, cls) == cls.name \in Keys(r.registry)
\* registry.py:18, self._registry[cls.__name__] = cls
Register_store(r, cls) == [r EXCEPT !.registry = DictSet(@, cls.name, cls)]

InitThreads ==
    /\ registry \in {NewRegister("Table"), NewRegister("CustomType")}
    /\ registered = <<>>
    /\ threads \in [1..NThreads ->
                        {[pc |-> "check", cls |-> ClassArgs[k], ok |-> FALSE, err |-> ""] :
                            k \in DOMAIN ClassArgs}]
    /\ shown = NoQuery
    /\ pre = registry
    /\ last = Outcome("new", <<>>, TRUE, "", <<>>, <<>>)
    /\ res = NoneObj /\ recv = NoExpr /\ before = Ok(<<>>, <<>>)
    /\ q = Select(User) /\ cases = NoCase
    /\ calls = [where |-> FALSE, bypass |-> FALSE, swapped |-> FALSE, builds |-> 0]
    /\ nops = 0

\* Thread t tests the membership and raises when the name is present.
CheckStep(t) ==
    /\ threads[t].pc = "check"
    /\ threads' = [threads EXCEPT ![t] =
                      IF Register_contains(registry, @.cls)
                      THEN [@ EXCEPT !.pc = "done", !.err = "AlreadyRegisteredError"]
                      ELSE [@ EXCEPT !.pc = "store"]]
    /\ UNCHANGED <<q, cases, last, pre, calls, recv, res, before, nops, registry,
                   registered, shown>>

\* Thread t, having found the name absent, stores its class and returns.
StoreStep(t) ==
    /\ threads[t].pc = "store"
    /\ registry' = Register_store(registry, threads[t].cls)
    /\ registered' = IF threads[t].cls.name \in Keys(registered) THEN registered
                     ELSE Append(registered, <<threads[t].cls.name, threads[t].cls>>)
    /\ pre' = registry
    /\ threads' = [threads EXCEPT ![t] = [@ EXCEPT !.pc = "done", !.ok = TRUE]]
    /\ UNCHANGED <<q, cases, last, calls, recv, res, before, nops, shown>>

NextThreads == \E t \in 1..NThreads : CheckStep(t) \/ StoreStep(t)

SpecThreads == InitThreads /\ [][NextThreads]_vars

\* C21: when two threads register classes of the same name, whatever the
\* interleaving of the membership test and the store, exactly one call
\* succeeds, the other raises AlreadyRegisteredError, and the registry keeps
\* the class stored first.
C21_ConcurrentRegister ==
    \A t, u \in DOMAIN threads :
        (t # u /\ threads[t].pc = "done" /\ threads[u].pc = "done"
             /\ threads[t].cls.name = threads[u].cls.name) =>
            /\ threads[t].ok # threads[u].ok
            /\ ~threads[t].ok => threads[t].err = "AlreadyRegisteredError"
            /\ DictGet(registry.registry, threads[t].cls.name) =
                    DictGet(registered, threads[t].cls.name)

---------------------------------------------------------------------------
(* The formatting machine: format_query (utils.py) applied to a query.     *)
(* Text is a sequence of pieces, a piece being the placeholder "%s" or a   *)
(* run of characters that holds no "%" and no "s" next to a piece          *)
(* boundary, so that a "%s" in the text is always a piece of its own.      *)

MaxParams == 3

Placeholder == "%s"

\* The parameter values: an int, and three strings, two of which hold the
\* characters %s.
FormatValues ==
    { [type |-> "int", pieces |-> <<"1">>],
      [type |-> "str", pieces |-> <<"x">>],
      [type |-> "str", pieces |-> <<Placeholder>>],
      [type |-> "str", pieces |-> <<"a ", Placeholder>>] }

\* repr(param): the digits of an int, a str between quotes.
repr(v) == IF v.type = "str" THEN <<"'">> \o v.pieces \o <<"'">> ELSE v.pieces

\* What build() returns for Select(User).where(..) with one condition
\* users.email = %s per parameter: the text and the parameter list.
FormatQuery(params) ==
    [sql |-> <<"SELECT * FROM users">>
                \o (IF params = <<>> THEN <<>> ELSE <<" WHERE ">>)
                \o Flatten([i \in DOMAIN params |->
                        (IF i = 1 THEN <<>> ELSE <<" AND ">>)
                            \o <<"(users.email = ", Placeholder, ")">>]),
     params |-> params]

\* sql.replace("%s", new, 1): the first occurrence, if any, is replaced.
str_replace_first(text, new) ==
    IF \E i \in DOMAIN text : text[i] = Placeholder
    THEN LET i == CHOOSE k \in DOMAIN text :
                    /\ text[k] = Placeholder
                    /\ \A j \in 1..(k - 1) : text[j] # Placeholder
         IN  SubSeq(text, 1, i - 1) \o new \o SubSeq(text, i + 1, Len(text))
    ELSE text

RECURSIVE format_loop(_, _)
format_loop(sql, params) ==
    IF params = <<>> THEN sql
    ELSE format_loop(str_replace_first(sql, repr(Head(params))), Tail(params))

format_query(sql, params) == format_loop(sql, params)

InitFormat ==
    /\ \E n \in 0..MaxParams : \E params \in [1..n -> FormatValues] :
          shown = [sql |-> FormatQuery(params).sql, params |-> params,
                   out |-> <<>>, done |-> FALSE]
    /\ threads = NoThreads
    /\ registry = TABLE_REGISTRY /\ registered = TABLE_REGISTRY.registry
    /\ pre = NoneObj
    /\ last = Outcome("new", <<>>, TRUE, "", <<>>, <<>>)
    /\ res = NoneObj /\ recv = NoExpr /\ before = Ok(<<>>, <<>>)
    /\ q = Select(User) /\ cases = NoCase
    /\ calls = [where |-> FALSE, bypass |-> FALSE, swapped |-> FALSE, builds |-> 0]
    /\ nops = 0

FormatQueryCall ==
    /\ ~shown.done
    /\ shown' = [shown EXCEPT !.out = format_query(shown.sql, shown.params),
                              !.done = TRUE]
    /\ UNCHANGED <<q, cases, last, pre, calls, recv, res, before, nops, registry,
                   registered, threads>>

NextFormat == FormatQueryCall

SpecFormat == InitFormat /\ [][NextFormat]_vars

\* The text in which the i-th placeholder of sql is replaced by the repr of
\* the i-th parameter.
RECURSIVE Positional(_, _)
Positional(sql, params) ==
    IF sql = <<>> THEN <<>>
    ELSE IF Head(sql) = Placeholder /\ params # <<>>
         THEN repr(Head(params)) \o Positional(Tail(sql), Tail(params))
         ELSE <<Head(sql)>> \o Positional(Tail(sql), params)

\* C22: format_query returns the built text with its i-th placeholder replaced
\* by the repr of the i-th parameter, for every parameter list, strings that
\* hold the placeholder included; text that came from a parameter is never
\* substituted again.
C22_FormatPositional ==
    shown.done => shown.out = Positional(shown.sql, shown.params)

\* Where no parameter holds the placeholder, the two agree.
FormatPlainParams ==
    (shown.done /\ \A i \in DOMAIN shown.params :
                        Placeholder \notin Range(shown.params[i].pieces)) =>
        shown.out = Positional(shown.sql, shown.params)

====
